---------------------------- MODULE Spec2Model ----------------------------
(***************************************************************************)
(* Model of the agent orchestration and resilience layer of the AI chatbot *)
(* aggregator: AIManager.sendPromptToAll and setupSessions (ai/manager.ts), *)
(* BaseChatBot (ai/base.ts) with the waitForResponse of its four           *)
(* subclasses, withRetry and isRetryableError (utils/retry.ts).            *)
(* The manager's call, withRetry, one chatbot, findElement, setupSessions, *)
(* the error classifier, the completion wait, the page calls of one        *)
(* sendPrompt, the initialization phase with its clock, two overlapping    *)
(* calls and the manager's initialize and close each have a specification  *)
(* of their own over one shared set of variables.                          *)
(*                                                                         *)
(* Error texts are sequences of one-character strings, so that             *)
(* String.includes and RegExp.test are substring searches that can fail.   *)
(***************************************************************************)
EXTENDS Integers, Sequences, FiniteSets, TLC

\* Longest chatbot-id list of a request explored.
MaxReq == 2

\* Largest maxRetries of the retry options explored for withRetry on its own.
MaxPolicyRetries == 3

\* Longest selector list given to findElement on its own.
MaxSelectors == 3

\* Most close() calls made on the chatbot explored on its own.
MaxCloses == 2

\* Longest time, in clock ticks, the close() calls of one cleanup take.
MaxCloseTicks == 1

\* Most browsers the manager launches in the lifecycle explored.
MaxLaunches == 3

\* The largest number of words in an error message given to the classifier.
MaxWords == 2

-----------------------------------------------------------------------------
(* Text *)

Min(a, b) == IF a <= b THEN a ELSE b

\* s.includes(p): p occurs in s as a contiguous run of characters.
Includes(s, p) ==
    \E i \in 1..(Len(s) - Len(p) + 1) : SubSeq(s, i, i + Len(p) - 1) = p

UpperToLower ==
    [A |-> "a", B |-> "b", C |-> "c", D |-> "d", E |-> "e", F |-> "f", G |-> "g",
     H |-> "h", I |-> "i", J |-> "j", K |-> "k", L |-> "l", M |-> "m", N |-> "n",
     O |-> "o", P |-> "p", Q |-> "q", R |-> "r", S |-> "s", T |-> "t", U |-> "u",
     V |-> "v", W |-> "w", X |-> "x", Y |-> "y", Z |-> "z"]

ToLower(s) ==
    [i \in 1..Len(s) |-> IF s[i] \in DOMAIN UpperToLower THEN UpperToLower[s[i]] ELSE s[i]]

\* /p/.test(s) for a pattern p without metacharacters.
RegexTest(p, s) == Includes(s, p)

\* /p/i.test(s) for a pattern p without metacharacters.
RegexTestI(p, s) == Includes(ToLower(s), ToLower(p))

\* parts.join(sep)
RECURSIVE Join(_, _)
Join(parts, sep) ==
    IF Len(parts) = 0 THEN <<>>
    ELSE IF Len(parts) = 1 THEN parts[1]
    ELSE parts[1] \o sep \o Join(Tail(parts), sep)

\* s.trim(): the blanks at both ends are dropped.
RECURSIVE Trim(_)
Trim(s) ==
    IF Len(s) = 0 THEN s
    ELSE IF s[1] = " " THEN Trim(Tail(s))
    ELSE IF s[Len(s)] = " " THEN Trim(SubSeq(s, 1, Len(s) - 1))
    ELSE s

-----------------------------------------------------------------------------
(* Patterns of isRetryableError and _mapErrorToChatBotError *)

\* "timeout"
PatTimeout ==
    <<"t", "i", "m", "e", "o", "u", "t">>

\* "network"
PatNetwork ==
    <<"n", "e", "t", "w", "o", "r", "k">>

\* "connection"
PatConnection ==
    <<"c", "o", "n", "n", "e", "c", "t", "i", "o", "n">>

\* "ECONNRESET"
PatECONNRESET ==
    <<"E", "C", "O", "N", "N", "R", "E", "S", "E", "T">>

\* "ENOTFOUND"
PatENOTFOUND ==
    <<"E", "N", "O", "T", "F", "O", "U", "N", "D">>

\* "ETIMEDOUT"
PatETIMEDOUT ==
    <<"E", "T", "I", "M", "E", "D", "O", "U", "T">>

\* "502"
Pat502 ==
    <<"5", "0", "2">>

\* "503"
Pat503 ==
    <<"5", "0", "3">>

\* "504"
Pat504 ==
    <<"5", "0", "4">>

\* "selector"
PatSelector ==
    <<"s", "e", "l", "e", "c", "t", "o", "r">>

\* "not found"
PatNotFound ==
    <<"n", "o", "t", " ", "f", "o", "u", "n", "d">>

\* "session"
PatSession ==
    <<"s", "e", "s", "s", "i", "o", "n">>

\* "login"
PatLogin ==
    <<"l", "o", "g", "i", "n">>

-----------------------------------------------------------------------------
(* Error names and messages *)

\* "Error"
NameError ==
    <<"E", "r", "r", "o", "r">>

\* "TimeoutError"
NameTimeoutError ==
    <<"T", "i", "m", "e", "o", "u", "t", "E", "r", "r", "o", "r">>

\* "connection refused"
MsgConnectionRefused ==
    <<"c", "o", "n", "n", "e", "c", "t", "i", "o", "n", " ", "r", "e", "f", "u", "s", "e",
      "d">>

\* "selector not found: X"
MsgSelectorNotFoundX ==
    <<"s", "e", "l", "e", "c", "t", "o", "r", " ", "n", "o", "t", " ", "f", "o", "u", "n",
      "d", ":", " ", "X">>

\* "timed out after 30000ms"
MsgTimedOut ==
    <<"t", "i", "m", "e", "d", " ", "o", "u", "t", " ", "a", "f", "t", "e", "r", " ", "3",
      "0", "0", "0", "0", "m", "s">>

\* "session expired, please log in"
MsgSessionExpired ==
    <<"s", "e", "s", "s", "i", "o", "n", " ", "e", "x", "p", "i", "r", "e", "d", ",", " ",
      "p", "l", "e", "a", "s", "e", " ", "l", "o", "g", " ", "i", "n">>

\* "Empty response received"
MsgEmptyResponse ==
    <<"E", "m", "p", "t", "y", " ", "r", "e", "s", "p", "o", "n", "s", "e", " ", "r", "e",
      "c", "e", "i", "v", "e", "d">>

\* "Chatbot not initialized"
MsgNotInitialized ==
    <<"C", "h", "a", "t", "b", "o", "t", " ", "n", "o", "t", " ", "i", "n", "i", "t", "i",
      "a", "l", "i", "z", "e", "d">>

\* "page.goto: Timeout 30000ms exceeded."
MsgGotoTimeout ==
    <<"p", "a", "g", "e", ".", "g", "o", "t", "o", ":", " ", "T", "i", "m", "e", "o", "u",
      "t", " ", "3", "0", "0", "0", "0", "m", "s", " ", "e", "x", "c", "e", "e", "d", "e",
      "d", ".">>

\* "None of the selectors found: "
MsgNoneOfPrefix ==
    <<"N", "o", "n", "e", " ", "o", "f", " ", "t", "h", "e", " ", "s", "e", "l", "e", "c",
      "t", "o", "r", "s", " ", "f", "o", "u", "n", "d", ":", " ">>

\* "No response text found"
MsgNoResponseText ==
    <<"N", "o", " ", "r", "e", "s", "p", "o", "n", "s", "e", " ", "t", "e", "x", "t", " ",
      "f", "o", "u", "n", "d">>

\* "No response received"
MsgNoResponseReceived ==
    <<"N", "o", " ", "r", "e", "s", "p", "o", "n", "s", "e", " ", "r", "e", "c", "e", "i",
      "v", "e", "d">>

\* ", "
SelectorSep ==
    <<",", " ">>

\* "failed"
MsgFailed ==
    <<"f", "a", "i", "l", "e", "d">>

\* " "
WordSep ==
    <<" ">>

-----------------------------------------------------------------------------
(* Configuration *)

\* CONFIG.APP.MAX_RETRIES
MAX_RETRIES == 3

\* CONFIG.APP.RETRY_DELAY
RETRY_DELAY == 1000

\* The keys of AIManager.chatbots in the insertion order of its Map.
\* CONFIG.BROWSER.TIMEOUT.RESPONSE_WAIT
RESPONSE_WAIT == 60000

\* CONFIG.BROWSER.TIMEOUT.PAGE_LOAD
PAGE_LOAD == 30000

\* The time between two checks of the completion loop: waitForTimeout(1000)
POLL_INTERVAL == 1000

ChatbotOrder == <<"chatgpt", "claude", "gemini", "perplexity">>

ChatbotIds == {ChatbotOrder[i] : i \in 1..Len(ChatbotOrder)}

\* CONFIG.CHATBOTS[id].selectors.chatInput
chatInputSelectors(id) ==
    CASE id = "chatgpt" ->
        <<<<"#", "p", "r", "o", "m", "p", "t", "-", "t", "e", "x", "t", "a", "r", "e", "a">>,
          <<"[", "d", "a", "t", "a", "-", "i", "d", "=", "\"", "r", "o", "o", "t", "\"", "]",
            " ", "t", "e", "x", "t", "a", "r", "e", "a">>,
          <<"t", "e", "x", "t", "a", "r", "e", "a", "[", "p", "l", "a", "c", "e", "h", "o", "l",
            "d", "e", "r", "*", "=", "\"", "M", "e", "s", "s", "a", "g", "e", "\"", "]">>,
          <<"t", "e", "x", "t", "a", "r", "e", "a", "[", "d", "a", "t", "a", "-", "t", "e", "s",
            "t", "i", "d", "=", "\"", "t", "e", "x", "t", "b", "o", "x", "\"", "]">>>>
      [] id = "claude" ->
        <<<<"d", "i", "v", "[", "c", "o", "n", "t", "e", "n", "t", "e", "d", "i", "t", "a", "b",
            "l", "e", "=", "\"", "t", "r", "u", "e", "\"", "]">>,
          <<"t", "e", "x", "t", "a", "r", "e", "a", "[", "p", "l", "a", "c", "e", "h", "o", "l",
            "d", "e", "r", "*", "=", "\"", "T", "a", "l", "k", " ", "t", "o", " ", "C", "l", "a",
            "u", "d", "e", "\"", "]">>,
          <<"[", "d", "a", "t", "a", "-", "t", "e", "s", "t", "i", "d", "=", "\"", "c", "h", "a",
            "t", "-", "i", "n", "p", "u", "t", "\"", "]">>>>
      [] id = "gemini" ->
        <<<<"r", "i", "c", "h", "-", "t", "e", "x", "t", "a", "r", "e", "a", "[", "p", "l", "a",
            "c", "e", "h", "o", "l", "d", "e", "r", "*", "=", "\"", "E", "n", "t", "e", "r", " ",
            "a", " ", "p", "r", "o", "m", "p", "t", "\"", "]">>,
          <<"t", "e", "x", "t", "a", "r", "e", "a", "[", "p", "l", "a", "c", "e", "h", "o", "l",
            "d", "e", "r", "*", "=", "\"", "E", "n", "t", "e", "r", " ", "a", " ", "p", "r", "o",
            "m", "p", "t", "\"", "]">>,
          <<"[", "d", "a", "t", "a", "-", "t", "e", "s", "t", "i", "d", "=", "\"", "i", "n", "p",
            "u", "t", "-", "t", "e", "x", "t", "a", "r", "e", "a", "\"", "]">>>>
      [] id = "perplexity" ->
        <<<<"t", "e", "x", "t", "a", "r", "e", "a", "[", "p", "l", "a", "c", "e", "h", "o", "l",
            "d", "e", "r", "*", "=", "\"", "A", "s", "k", " ", "a", "n", "y", "t", "h", "i", "n",
            "g", "\"", "]">>,
          <<"t", "e", "x", "t", "a", "r", "e", "a", "[", "p", "l", "a", "c", "e", "h", "o", "l",
            "d", "e", "r", "*", "=", "\"", "F", "o", "l", "l", "o", "w", " ", "u", "p", "\"",
            "]">>,
          <<"[", "d", "a", "t", "a", "-", "t", "e", "s", "t", "i", "d", "=", "\"", "s", "e", "a",
            "r", "c", "h", "-", "i", "n", "p", "u", "t", "\"", "]">>>>

\* CONFIG.CHATBOTS[id].selectors.submitButton
submitButtonSelectors(id) ==
    CASE id = "chatgpt" ->
        <<<<"[", "d", "a", "t", "a", "-", "t", "e", "s", "t", "i", "d", "=", "\"", "s", "e", "n",
            "d", "-", "b", "u", "t", "t", "o", "n", "\"", "]">>,
          <<"b", "u", "t", "t", "o", "n", "[", "a", "r", "i", "a", "-", "l", "a", "b", "e", "l",
            "=", "\"", "S", "e", "n", "d", " ", "p", "r", "o", "m", "p", "t", "\"", "]">>,
          <<"b", "u", "t", "t", "o", "n", "[", "d", "a", "t", "a", "-", "t", "e", "s", "t", "i",
            "d", "=", "\"", "s", "e", "n", "d", "-", "b", "u", "t", "t", "o", "n", "\"", "]">>,
          <<"b", "u", "t", "t", "o", "n", ":", "h", "a", "s", "(", "s", "v", "g", "[", "d", "a",
            "t", "a", "-", "i", "c", "o", "n", "=", "\"", "s", "e", "n", "d", "\"", "]", ")">>>>
      [] id = "claude" ->
        <<<<"b", "u", "t", "t", "o", "n", "[", "a", "r", "i", "a", "-", "l", "a", "b", "e", "l",
            "=", "\"", "S", "e", "n", "d", " ", "M", "e", "s", "s", "a", "g", "e", "\"", "]">>,
          <<"b", "u", "t", "t", "o", "n", ":", "h", "a", "s", "(", "s", "v", "g", "[", "d", "a",
            "t", "a", "-", "i", "c", "o", "n", "=", "\"", "s", "e", "n", "d", "\"", "]", ")">>,
          <<"[", "d", "a", "t", "a", "-", "t", "e", "s", "t", "i", "d", "=", "\"", "s", "e", "n",
            "d", "-", "b", "u", "t", "t", "o", "n", "\"", "]">>>>
      [] id = "gemini" ->
        <<<<"b", "u", "t", "t", "o", "n", "[", "a", "r", "i", "a", "-", "l", "a", "b", "e", "l",
            "=", "\"", "S", "e", "n", "d", " ", "m", "e", "s", "s", "a", "g", "e", "\"", "]">>,
          <<"b", "u", "t", "t", "o", "n", "[", "d", "a", "t", "a", "-", "t", "e", "s", "t", "i",
            "d", "=", "\"", "s", "e", "n", "d", "-", "b", "u", "t", "t", "o", "n", "\"", "]">>,
          <<"b", "u", "t", "t", "o", "n", ":", "h", "a", "s", "(", "s", "v", "g", "[", "d", "a",
            "t", "a", "-", "i", "c", "o", "n", "=", "\"", "s", "e", "n", "d", "\"", "]", ")">>>>
      [] id = "perplexity" ->
        <<<<"b", "u", "t", "t", "o", "n", "[", "a", "r", "i", "a", "-", "l", "a", "b", "e", "l",
            "=", "\"", "S", "u", "b", "m", "i", "t", "\"", "]">>,
          <<"b", "u", "t", "t", "o", "n", ":", "h", "a", "s", "(", "s", "v", "g", "[", "d", "a",
            "t", "a", "-", "i", "c", "o", "n", "=", "\"", "a", "r", "r", "o", "w", "-", "r", "i",
            "g", "h", "t", "\"", "]", ")">>,
          <<"[", "d", "a", "t", "a", "-", "t", "e", "s", "t", "i", "d", "=", "\"", "s", "u", "b",
            "m", "i", "t", "-", "b", "u", "t", "t", "o", "n", "\"", "]">>>>

-----------------------------------------------------------------------------
(* Errors *)

\* A thrown Error: the tag says which text it carries; a findElement failure
\* also names the chatbot and the selector list it joined into its message.
PlainError(tag) == [tag |-> tag, bot |-> "-", list |-> "-"]

FindElementError(id, list) == [tag |-> "NoneOfSelectors", bot |-> id, list |-> list]

\* An Error whose message is the given words with a space between them.
TextError(words) == [tag |-> "Text", bot |-> "-", list |-> "-", words |-> words]

\* The words an error message is put together from: the seven texts the
\* classifier looks for and one it does not.
Words == {"timeout", "selector", "not found", "network", "connection", "session",
          "login", "failed"}

WordText(word) ==
    CASE word = "timeout" -> PatTimeout
      [] word = "selector" -> PatSelector
      [] word = "not found" -> PatNotFound
      [] word = "network" -> PatNetwork
      [] word = "connection" -> PatConnection
      [] word = "session" -> PatSession
      [] word = "login" -> PatLogin
      [] word = "failed" -> MsgFailed

NoError == PlainError("none")

\* What an operation that resolves hands to withRetry in place of an error.
Resolves == PlainError("ok")

PlainErrorTags ==
    {"ConnectionRefused", "SelectorNotFoundX", "TimedOut", "SessionExpired",
     "EmptyResponse", "NotInitialized", "GotoTimeout", "NoResponseText"}

Errors ==
    {PlainError(t) : t \in PlainErrorTags}
        \cup {FindElementError(id, l) : id \in ChatbotIds, l \in {"chatInput", "submitButton"}}

\* error.name
ErrorName(error) ==
    IF error.tag = "GotoTimeout" THEN NameTimeoutError ELSE NameError

\* error.message
ErrorMessage(error) ==
    CASE error.tag = "ConnectionRefused" -> MsgConnectionRefused
      [] error.tag = "SelectorNotFoundX" -> MsgSelectorNotFoundX
      [] error.tag = "TimedOut" -> MsgTimedOut
      [] error.tag = "SessionExpired" -> MsgSessionExpired
      [] error.tag = "EmptyResponse" -> MsgEmptyResponse
      [] error.tag = "NotInitialized" -> MsgNotInitialized
      [] error.tag = "GotoTimeout" -> MsgGotoTimeout
      [] error.tag = "NoResponseText" -> MsgNoResponseText
      [] error.tag = "Text" ->
            Join([i \in 1..Len(error.words) |-> WordText(error.words[i])], WordSep)
      [] error.tag = "NoneOfSelectors" ->
            MsgNoneOfPrefix \o
                Join(IF error.list = "chatInput" THEN chatInputSelectors(error.bot)
                     ELSE submitButtonSelectors(error.bot), SelectorSep)

retryablePatternsI == {PatTimeout, PatNetwork, PatConnection}

retryablePatterns == {PatECONNRESET, PatENOTFOUND, PatETIMEDOUT, Pat502, Pat503, Pat504}

isRetryableError(error) ==
    \/ \E p \in retryablePatternsI :
          RegexTestI(p, ErrorMessage(error)) \/ RegexTestI(p, ErrorName(error))
    \/ \E p \in retryablePatterns :
          RegexTest(p, ErrorMessage(error)) \/ RegexTest(p, ErrorName(error))

createError_AlwaysRecoverable(type, message, details) ==
    [type |-> type, message |-> message, details |-> details, recoverable |-> TRUE]

createError(type, message, details) ==
    [type |-> type, message |-> message, details |-> details,
     recoverable |-> type # "SESSION_INVALID"]

NoChatBotError ==
    [type |-> "none", message |-> "none", details |-> NoError, recoverable |-> FALSE]

\* For UNKNOWN_ERROR the message is error.message, stood for by the error's tag;
\* details (error.message or error.stack) is stood for by the error itself.
mapErrorToChatBotError_SessionFirst(error) ==
    LET m == ErrorMessage(error) IN
    IF Includes(m, PatSession) \/ Includes(m, PatLogin)
    THEN createError("SESSION_INVALID", "Session expired or invalid", error)
    ELSE IF Includes(m, PatTimeout)
    THEN createError("TIMEOUT_ERROR", "Request timed out", error)
    ELSE IF Includes(m, PatSelector) \/ Includes(m, PatNotFound)
    THEN createError("SELECTOR_NOT_FOUND", "UI element not found", error)
    ELSE IF Includes(m, PatNetwork) \/ Includes(m, PatConnection)
    THEN createError("NETWORK_ERROR", "Network connectivity issue", error)
    ELSE createError("UNKNOWN_ERROR", error.tag, error)

mapErrorToChatBotError(error) ==
    LET m == ErrorMessage(error) IN
    IF Includes(m, PatTimeout)
    THEN createError("TIMEOUT_ERROR", "Request timed out", error)
    ELSE IF Includes(m, PatSelector) \/ Includes(m, PatNotFound)
    THEN createError("SELECTOR_NOT_FOUND", "UI element not found", error)
    ELSE IF Includes(m, PatNetwork) \/ Includes(m, PatConnection)
    THEN createError("NETWORK_ERROR", "Network connectivity issue", error)
    ELSE IF Includes(m, PatSession) \/ Includes(m, PatLogin)
    THEN createError("SESSION_INVALID", "Session expired or invalid", error)
    ELSE createError("UNKNOWN_ERROR", error.tag, error)

\* The two functions of the error, computed once.
RetryableOf == [e \in Errors |-> isRetryableError(e)]

ChatBotErrorOf == [e \in Errors |-> mapErrorToChatBotError(e)]

-----------------------------------------------------------------------------
(* withRetry *)

\* The defaults of withRetry's options; backoffMultiplier 1.5 is 3/2.
DefaultRetryOptions ==
    [maxRetries |-> MAX_RETRIES, delay |-> RETRY_DELAY,
     multNum |-> 3, multDen |-> 2, maxDelay |-> 10000,
     retryCondition |-> "always"]

\* options.retryCondition(error)
RetryCondition(cond, error) ==
    CASE cond = "always" -> TRUE
      [] cond = "never" -> FALSE
      [] cond = "isRetryableError" -> RetryableOf[error]

\* let lastError; let currentDelay = delay; attempt = 0
RetryStart(opts) ==
    [attempt |-> 0, currentDelay |-> opts.delay, lastError |-> NoError,
     status |-> "running"]

\* The head of one iteration: the wait (0: no timer) and the delay that follows.
\* The products of the delays explored are whole numbers, as in the code's floats.
RetryBackoff(r, opts) ==
    IF r.attempt > 0
    THEN [wait |-> r.currentDelay, timer |-> TRUE,
          state |-> [r EXCEPT !.currentDelay =
                        Min((r.currentDelay * opts.multNum) \div opts.multDen,
                            opts.maxDelay)]]
    ELSE [wait |-> 0, timer |-> FALSE, state |-> r]

\* return result
RetryOnResolve(r) == [r EXCEPT !.status = "fulfilled"]

RetryOnReject_IgnoreCondition(r, opts, error) ==
    IF r.attempt = opts.maxRetries
    THEN [r EXCEPT !.lastError = error, !.status = "rejected"]
    ELSE [r EXCEPT !.lastError = error, !.attempt = @ + 1]

RetryOnReject_OneMore(r, opts, error) ==
    IF r.attempt = opts.maxRetries + 1 \/ ~RetryCondition(opts.retryCondition, error)
    THEN [r EXCEPT !.lastError = error, !.status = "rejected"]
    ELSE [r EXCEPT !.lastError = error, !.attempt = @ + 1]

\* The catch block: break and throw lastError, or go round the loop again.
RetryOnReject(r, opts, error) ==
    IF r.attempt = opts.maxRetries \/ ~RetryCondition(opts.retryCondition, error)
    THEN [r EXCEPT !.lastError = error, !.status = "rejected"]
    ELSE [r EXCEPT !.lastError = error, !.attempt = @ + 1]

IdleRetry ==
    [attempt |-> 0, currentDelay |-> 0, lastError |-> NoError, status |-> "idle"]

\* The for loop of withRetry run against an operation whose successive
\* invocations end as script says (Resolves, or the error thrown), to the end of
\* the loop or, should the loop outlast it, of the script.
RECURSIVE RunRetry(_, _, _, _)
RunRetry(r, opts, script, calls) ==
    IF r.status # "running" \/ calls >= Len(script)
    THEN [state |-> r, calls |-> calls]
    ELSE LET b == RetryBackoff(r, opts)
             o == script[calls + 1]
         IN  IF o = Resolves
             THEN RunRetry(RetryOnResolve(b.state), opts, script, calls + 1)
             ELSE RunRetry(RetryOnReject(b.state, opts, o), opts, script, calls + 1)

withRetry(opts, script) == RunRetry(RetryStart(opts), opts, script, 0)

-----------------------------------------------------------------------------
(* BaseChatBot *)

\* What the page driver does to one initialize() call.
InitBehaviours == {"ok", "storageStateFails", "gotoTimesOut"}

\* initialize(): Resolves, or the error it rethrows.
initialize(behaviour) ==
    CASE behaviour = "ok" -> Resolves
      [] behaviour = "storageStateFails" -> PlainError("SessionExpired")
      [] behaviour = "gotoTimesOut" -> PlainError("GotoTimeout")

\* The time one initialize() call takes: newContext fails at once, a goto that
\* times out takes its timeout PAGE_LOAD, one that succeeds a tenth of it.
initializeTime(behaviour) ==
    CASE behaviour = "ok" -> PAGE_LOAD \div 10
      [] behaviour = "storageStateFails" -> 0
      [] behaviour = "gotoTimesOut" -> PAGE_LOAD

\* this.page after initialize(): newContext fails before the page is assigned,
\* goto fails after it.
pageAfterInitialize(pageBefore, behaviour) ==
    IF behaviour = "storageStateFails" THEN pageBefore ELSE TRUE

probeTimeout_Whole(timeout, count) == timeout

\* timeout / selectors.length, the timeout of each waitForSelector call; the
\* timeouts explored are whole multiples of the list lengths.
probeTimeout(timeout, count) == timeout \div count

\* When the element of a selector appears: never, or so long after the start of
\* findElement.
Never == -1

\* page.waitForSelector(selector, {timeout}) started at time start may resolve:
\* the element is there before the timeout runs out.
mayResolve(appears, start, timeout) ==
    appears # Never /\ (IF appears > start THEN appears - start ELSE 0) <= timeout

\* ... and may reject with a TimeoutError: the element is not there before then.
mayTimeOut(appears, start, timeout) ==
    appears = Never \/ appears - start >= timeout

\* The time a waitForSelector call that resolves has taken.
resolveTime(appears, start) == IF appears > start THEN appears - start ELSE 0

\* this.context after initialize(): set once newContext has resolved.
contextAfterInitialize(contextBefore, behaviour) ==
    IF behaviour = "storageStateFails" THEN contextBefore ELSE TRUE

\* What the page driver does to one _sendPromptInternal() call: the first three
\* let the prompt through and say what text the page then shows.
SubmitBehaviours == {"text", "empty", "connectionRefused", "sessionExpired"}

AllSubmitBehaviours ==
    SubmitBehaviours \cup
        {"blank", "timedOut", "selectorNotFound", "chatInputMissing", "submitButtonMissing"}

\* The text content the page hands to the extraction of waitForResponse.
extractedText(behaviour) ==
    CASE behaviour = "text" -> <<" ", "4", " ">>
      [] behaviour = "empty" -> <<>>
      [] behaviour = "blank" -> <<" ">>

\* The text in an outcome whose response was extracted from non-blank content.
ResponseText == Trim(extractedText("text"))

\* PerplexityBot (ai/perplexity.ts) and ChatGPTBot (ai/chatgpt.ts, the file the
\* manager imports): ... || 'No response received'
waitForResponsePlaceholder(extracted) ==
    [error |-> NoError,
     text |-> IF Len(Trim(extracted)) # 0 THEN Trim(extracted) ELSE MsgNoResponseReceived]

\* GeminiBot (ai/gemini.ts) and ClaudeBot (the first class of ai/claude.ts):
\* throw new Error('No response text found')
waitForResponseThrowing(extracted) ==
    IF Len(Trim(extracted)) # 0
    THEN [error |-> NoError, text |-> Trim(extracted)]
    ELSE [error |-> PlainError("NoResponseText"), text |-> <<>>]

\* waitForResponse() of the chatbot's class: the error it throws, or the text.
waitForResponse(id, extracted) ==
    IF id \in {"chatgpt", "perplexity"}
    THEN waitForResponsePlaceholder(extracted)
    ELSE waitForResponseThrowing(extracted)

\* _sendPromptInternal(): the error it throws, or the response it resolves with.
sendPromptInternalResult(id, hasPage, behaviour) ==
    IF ~hasPage THEN [error |-> PlainError("NotInitialized"), text |-> <<>>]
    ELSE CASE behaviour = "chatInputMissing" ->
                [error |-> FindElementError(id, "chatInput"), text |-> <<>>]
           [] behaviour = "submitButtonMissing" ->
                [error |-> FindElementError(id, "submitButton"), text |-> <<>>]
           [] behaviour = "connectionRefused" ->
                [error |-> PlainError("ConnectionRefused"), text |-> <<>>]
           [] behaviour = "sessionExpired" ->
                [error |-> PlainError("SessionExpired"), text |-> <<>>]
           [] behaviour = "timedOut" ->
                [error |-> PlainError("TimedOut"), text |-> <<>>]
           [] behaviour = "selectorNotFound" ->
                [error |-> PlainError("SelectorNotFoundX"), text |-> <<>>]
           [] OTHER ->
                LET response == waitForResponse(id, extractedText(behaviour))
                IN  IF response.error # NoError THEN response
                    ELSE IF Len(Trim(response.text)) = 0
                    THEN [error |-> PlainError("EmptyResponse"), text |-> <<>>]
                    ELSE response

\* _sendPromptInternal() as withRetry sees it: Resolves, or the error thrown.
sendPromptInternal(id, hasPage, behaviour) ==
    LET result == sendPromptInternalResult(id, hasPage, behaviour)
    IN  IF result.error = NoError THEN Resolves ELSE result.error

\* The options sendPrompt passes to withRetry.
SendPromptRetryOptions ==
    [DefaultRetryOptions EXCEPT !.maxRetries = MAX_RETRIES,
                                !.retryCondition = "isRetryableError"]

NoOutcome ==
    [id |-> "none", response |-> <<>>, status |-> "pending", error |-> NoChatBotError,
     retryCount |-> 0, sessionValid |-> FALSE]

\* The withRetry call of sendPrompt run to its end.
sendPromptRun(id, hasPage, behaviours) ==
    withRetry(SendPromptRetryOptions,
              [i \in 1..Len(behaviours) |-> sendPromptInternal(id, hasPage, behaviours[i])])

\* The error the catch block of sendPrompt receives; NoError when none is thrown.
sendPromptCaught(id, hasPage, behaviours) ==
    LET run == sendPromptRun(id, hasPage, behaviours)
    IN  IF run.state.status = "fulfilled" THEN NoError ELSE run.state.lastError

\* What withRetry returns to sendPrompt: the response of the last invocation.
sendPromptResponse(id, hasPage, behaviours) ==
    LET run == sendPromptRun(id, hasPage, behaviours)
    IN  sendPromptInternalResult(id, hasPage, behaviours[run.calls]).text

\* this.retryCount when sendPrompt returns: it is reset to 0, then incremented by
\* every _sendPromptInternal call that has a page.
sendPromptRetryCount(id, hasPage, behaviours) ==
    IF hasPage THEN sendPromptRun(id, hasPage, behaviours).calls ELSE 0

\* sendPrompt(): the ChatBotResponse it returns; it has no path that throws.
sendPrompt(id, hasPage, behaviours) ==
    LET caught == sendPromptCaught(id, hasPage, behaviours)
    IN  IF caught = NoError
        THEN [id |-> id, response |-> sendPromptResponse(id, hasPage, behaviours),
              status |-> "success",
              error |-> NoChatBotError,
              retryCount |-> sendPromptRetryCount(id, hasPage, behaviours),
              sessionValid |-> TRUE]
        ELSE LET chatbotError == ChatBotErrorOf[caught]
             IN  [id |-> id, response |-> <<>>, status |-> "error",
                  error |-> chatbotError,
                  retryCount |-> sendPromptRetryCount(id, hasPage, behaviours),
                  sessionValid |-> chatbotError.type # "SESSION_INVALID"]

\* What the page driver does to one close() call.
CloseBehaviours == {"ok", "pageCloseFails", "contextCloseFails"}

close_NoCatch(hasPage, hasContext, behaviour) ==
    LET pageThrows == hasPage /\ behaviour = "pageCloseFails"
        contextThrows == ~pageThrows /\ hasContext /\ behaviour = "contextCloseFails"
    IN  [pageClosed |-> hasPage /\ ~pageThrows,
         contextClosed |-> hasContext /\ ~pageThrows /\ ~contextThrows,
         warned |-> FALSE,
         threw |-> pageThrows \/ contextThrows]

\* close(): await this.page?.close(); await this.context?.close(); an error of
\* either is caught and logged as a warning, and skips what follows it in the try.
close(hasPage, hasContext, behaviour) ==
    LET pageThrows == hasPage /\ behaviour = "pageCloseFails"
        contextThrows == ~pageThrows /\ hasContext /\ behaviour = "contextCloseFails"
    IN  [pageClosed |-> hasPage /\ ~pageThrows,
         contextClosed |-> hasContext /\ ~pageThrows /\ ~contextThrows,
         warned |-> pageThrows \/ contextThrows,
         threw |-> FALSE]

pageGuard_Absent(hasPage) == TRUE

\* if (!this.page) throw new Error('Chatbot not initialized')
pageGuard(hasPage) == hasPage

\* The page calls of _sendPromptInternal after the guard, in the order of its
\* awaits; the last two are the wait for the end of the generation and the
\* extraction of the text inside waitForResponse.
SendSteps ==
    <<"findElement(chatInput)", "waitForSelector(input)", "click(input)", "fill(input)",
      "type(input)", "findElement(submitButton)", "click(submit)", "completionWait",
      "extract">>

\* const maxAttempts = CONFIG.BROWSER.TIMEOUT.RESPONSE_WAIT / 1000
maxAttempts == RESPONSE_WAIT \div POLL_INTERVAL

\* What one check of the completion loop meets: findElement(stopButton, 1000)
\* resolves or throws, page.$(stopSelector) gives an element or null, and
\* page.$('.loading, .generating') gives an element or null.
CheckOutcomes == [stopFound : BOOLEAN, stopButton : BOOLEAN, loading : BOOLEAN]

\* The isGenerating a check leaves: false from the catch block when findElement
\* threw, else !!stopButton (ClaudeBot) or !!(stopButton || loadingIndicator)
\* (GeminiBot).
isGeneratingAfter_CatchKeepsWaiting(id, outcome) ==
    \/ ~outcome.stopFound
    \/ outcome.stopButton
    \/ (id = "gemini" /\ outcome.loading)

isGeneratingAfter(id, outcome) ==
    /\ outcome.stopFound
    /\ (outcome.stopButton \/ (id = "gemini" /\ outcome.loading))

\* while (isGenerating && attempts < maxAttempts)
loopContinues(isGenerating, attempts) == isGenerating /\ attempts < maxAttempts

\* if (!this.browser) throw new Error('Browser not initialized')
browserGuard(browser) ==
    IF browser = 0 THEN "Browser not initialized" ELSE "none"

MaxOf(S) == CHOOSE x \in S : \A y \in S : y <= x

\* The time at which the sendPrompt calls are made: after
\* await Promise.allSettled(initPromises), when the last initPromise has settled.
promptsStartAt(selected, end, id) == MaxOf({end[other] : other \in selected})

-----------------------------------------------------------------------------
(* AIManager.sendPromptToAll *)

\* request.options: whether retries is given, and its value.
NoOptions == [hasRetries |-> FALSE, retries |-> 0]

\* const { retries: _retries } = { retries: CONFIG.APP.MAX_RETRIES, ...options }
effectiveRetries(options) ==
    IF options.hasRetries THEN options.retries ELSE MAX_RETRIES

InSeq(x, seq) == \E i \in 1..Len(seq) : seq[i] = x

\* Array.from(this.chatbots.entries()).filter(([id]) => enabledChatbots.includes(id))
selectChatbots(enabledChatbots) ==
    SelectSeq(ChatbotOrder, LAMBDA id : InSeq(id, enabledChatbots))

\* The options sendPromptToAll passes to withRetry around chatbot.initialize.
InitRetryOptions ==
    [DefaultRetryOptions EXCEPT !.maxRetries = 2,
                                !.retryCondition = "isRetryableError"]

Unsettled == [status |-> "none", reason |-> NoError]

\* A sendPrompt promise: its status, the value it fulfils with, the error
\* sendPrompt caught on the way, and the number of _sendPromptInternal calls made.
NoPromptResult ==
    [status |-> "none", value |-> NoOutcome, caught |-> NoError, attempts |-> 0]

successfulOf(selected, initRes) ==
    SelectSeq(selected, LAMBDA id : initRes[id].status = "fulfilled")

failedOf(selected, initRes) ==
    SelectSeq(selected, LAMBDA id : initRes[id].status = "rejected")

allFailed_AnyFailed(selected, initRes) ==
    Len(successfulOf(selected, initRes)) < Len(selected)

allFailed_Never(selected, initRes) == FALSE

\* successfulChatbots.length === 0
allFailed(selected, initRes) == Len(successfulOf(selected, initRes)) = 0

\* The outcome synthesized for a rejected sendPrompt promise.
rejectedPromptOutcome(id, reason) ==
    [id |-> id, response |-> <<>>, status |-> "error",
     error |-> [type |-> "UNKNOWN_ERROR", message |-> reason.tag, details |-> reason,
                recoverable |-> TRUE],
     retryCount |-> 0, sessionValid |-> FALSE]

\* The outcome pushed for a chatbot whose initialization was rejected.
failedInitOutcome(id, reason) ==
    [id |-> id, response |-> <<>>, status |-> "error",
     error |-> [type |-> "NETWORK_ERROR", message |-> "Failed to initialize",
                details |-> reason, recoverable |-> TRUE],
     retryCount |-> 0, sessionValid |-> FALSE]

failedInitOutcomes_Dropped(selected, initRes) == <<>>

\* failedInits.forEach(... results.push(...))
failedInitOutcomes(selected, initRes) ==
    LET failed == failedOf(selected, initRes)
    IN  [i \in 1..Len(failed) |-> failedInitOutcome(failed[i], initRes[failed[i]].reason)]

\* results = promptResults.map(...), then the failed initializations are pushed.
buildResults(selected, initRes, promptRes) ==
    LET successful == successfulOf(selected, initRes)
    IN  [i \in 1..Len(successful) |->
            IF promptRes[successful[i]].status = "fulfilled"
            THEN promptRes[successful[i]].value
            ELSE rejectedPromptOutcome(successful[i], promptRes[successful[i]].caught)]
        \o failedInitOutcomes(selected, initRes)

\* The awaits of one setup promise of setupSessions, in order.
SetupSteps ==
    <<"newContext", "newPage", "goto", "waitForTimeout", "storageState", "close">>

\* The step after one that resolved; the promise is fulfilled after the last.
nextSetupStep(step) ==
    LET i == CHOOSE k \in 1..Len(SetupSteps) : SetupSteps[k] = step
    IN  IF i = Len(SetupSteps) THEN "fulfilled" ELSE SetupSteps[i + 1]

allSettled_FailFast(steps) ==
    IF \E id \in DOMAIN steps : steps[id] = "rejected" THEN "rejected"
    ELSE IF \A id \in DOMAIN steps : steps[id] = "fulfilled" THEN "fulfilled"
    ELSE "pending"

\* Promise.allSettled(setupPromises): fulfilled once every promise has settled.
allSettled(steps) ==
    IF \A id \in DOMAIN steps : steps[id] \in {"fulfilled", "rejected"}
    THEN "fulfilled"
    ELSE "pending"

pendingAfterClose_Propagates(pending, closes) ==
    IF \E id \in DOMAIN closes : closes[id].warned \/ closes[id].threw
    THEN "Error closing chatbot"
    ELSE pending

\* The error pending when the finally block ends: every close() promise has its
\* own .catch and all of them are awaited with allSettled, so it is the error
\* that was pending when the block began.
pendingAfterClose(pending, closes) == pending

countStatus_Every(rs, status) == Len(rs)

\* results.filter(r => r.status === status).length
countStatus(rs, status) == Cardinality({i \in 1..Len(rs) : rs[i].status = status})

NoResponse ==
    [results |-> <<>>, totalDuration |-> -1, successCount |-> -1, errorCount |-> -1]

-----------------------------------------------------------------------------
(* State *)

VARIABLES
    browser,          \* AIManager.browser is set
    isInitialized,    \* AIManager.isInitialized
    callPc,           \* where the sendPromptToAll call is
    request,          \* its PromptRequest
    selectedChatbots, \* ids of the selected chatbots, in Map order
    initResults,      \* per chatbot, how its initPromise settled
    promptResults,    \* per chatbot, how its sendPrompt promise settled
    results,          \* the local results array
    thrown,           \* the error thrown by the call, pending in finally or propagated
    response,         \* the PromptResponse returned
    closed,           \* chatbots on which the finally block has called close()
    page,             \* per chatbot, BaseChatBot.page is set
    retryCount,       \* per chatbot, BaseChatBot.retryCount
    closeWarnings,    \* chatbots whose close() logged 'Error closing chatbot'
    now,              \* the clock Date.now() reads, in ticks
    startTime,        \* the local startTime
    promptsDoneAt,    \* the clock when the sendPrompt promises had all settled
    rOpts,            \* withRetry run on its own: its options
    rRetry,           \* its attempt, currentDelay, lastError and status
    rPc,              \* "backoff", "operation" or "done"
    rDelays,          \* the wait before each invocation of the operation so far
    rTimers,          \* the number of setTimeout waits started
    rErrors,          \* the errors the operation has thrown so far
    rCalls,           \* the number of invocations of the operation
    rThrown,          \* the error withRetry threw
    aId,              \* one chatbot on its own: its id
    aPage,            \* its page field is set
    aContext,         \* its context field is set
    aOpen,            \* which of "page" and "context" the browser holds open for it
    aOutcome,         \* the ChatBotResponse of its last sendPrompt
    aCaught,          \* the error the catch block of that sendPrompt received
    aAttempts,        \* the number of _sendPromptInternal calls of that sendPrompt
    aPrevCaught,      \* the error caught by the sendPrompt before it
    aPrevType,        \* and the type that error was given
    aCloseCalls,      \* the number of close() calls so far
    aCloseWarnings,   \* how many of them logged 'Error closing chatbot'
    aCloseThrew,      \* some close() call threw
    fPage,            \* findElement on its own: this.page is set
    fSelectors,       \* its selectors argument
    fTimeout,         \* its timeout argument
    fAppears,         \* per selector, when its element appears after a probe starts
    fPc,              \* "probing", "returned" or "threw"
    fProbes,          \* the waitForSelector calls so far: selector, timeout, outcome
    fElapsed,         \* the time spent in them
    fResult,          \* the selector returned
    sBrowser,         \* setupSessions on its own: this.browser is set
    sSession,         \* per chatbot, its session file exists
    sPc,              \* "idle", "running", "done" or "threw"
    sStep,            \* per chatbot, where its setup promise is
    cText,            \* the classifier on its own: the words of error.message
    cPc,              \* "thrown" or "mapped"
    cError,           \* the ChatBotError it returned
    wId,              \* waitForResponse on its own: the chatbot it belongs to
    wPc,              \* "container", "sleep", "check", "extract", "returned", "threw"
    wGenerating,      \* the local isGenerating
    wAttempts,        \* the local attempts
    wSleeps,          \* the waitForTimeout(1000) calls of the loop so far
    wFirstCheck,      \* what the first check of the loop found
    wThrown,          \* the error waitForResponse threw
    tPage,            \* one chatbot driven as the manager drives it: this.page is set
    tReady,           \* its initPromise fulfilled: it is one of successfulChatbots
    tPc,              \* "start", "initializing", "notPrompted", "sendPrompt", "guard",
                      \* "steps" or "done"
    tInit,            \* withRetry around initialize: attempt, currentDelay, status
    tSend,            \* withRetry around _sendPromptInternal
    tStep,            \* the next page call of the running _sendPromptInternal
    tLog,             \* the page calls made by sendPrompt: attempt and call
    tStatus,          \* status of the ChatBotResponse of sendPrompt
    pSelected,        \* the initialization phase on its own: the selected chatbots
    pRetry,           \* per chatbot, withRetry around its initialize
    pEnd,             \* per chatbot, the time its initPromise has run for
    pPc,              \* "initializing", "prompting", "threw" or "ended"
    pOpen,            \* per chatbot, the contexts opened in this call and still open
    pSubmitAt,        \* per chatbot, the time its sendPrompt is called (-1: never)
    oPc,              \* two sendPromptToAll calls on one chatbot: where each call is
    oInit,            \* per call, withRetry around its initialize
    oSend,            \* per call, withRetry around its _sendPromptInternal
    oPage,            \* the call whose initialize created this.page (0: unset)
    oOpen,            \* the calls whose page and context are still open
    oRetryCount,      \* this.retryCount
    oStartBy,         \* the call whose sendPrompt last set this.startTime
    oAttempts,        \* per call, its own _sendPromptInternal calls
    oReport,          \* per call, what the outcome of its sendPrompt reports
    lBrowser,         \* initialize and close of the manager: the browser this.browser
                      \* holds, by its number (0: undefined)
    lInitialized,     \* this.isInitialized
    lOpen,            \* the browsers launched and not closed
    lLaunching,       \* the initialize() calls awaiting chromium.launch
    lLaunched,        \* the number of browsers launched so far
    lClosing,         \* the browser a close() call is awaiting browser.close() of
    lGuard            \* how the last sendPromptToAll or setupSessions call began

managerVars ==
    <<browser, isInitialized, callPc, request, selectedChatbots, initResults,
      promptResults, results, thrown, response, closed, page, retryCount,
      closeWarnings, now, startTime, promptsDoneAt>>

retryVars == <<rOpts, rRetry, rPc, rDelays, rTimers, rErrors, rCalls, rThrown>>

agentVars ==
    <<aId, aPage, aContext, aOpen, aOutcome, aCaught, aAttempts, aPrevCaught,
      aPrevType, aCloseCalls, aCloseWarnings, aCloseThrew>>

findVars == <<fPage, fSelectors, fTimeout, fAppears, fPc, fProbes, fElapsed, fResult>>

setupVars == <<sBrowser, sSession, sPc, sStep>>

classifyVars == <<cText, cPc, cError>>

waitVars == <<wId, wPc, wGenerating, wAttempts, wSleeps, wFirstCheck, wThrown>>

stepsVars == <<tPage, tReady, tPc, tInit, tSend, tStep, tLog, tStatus>>

phaseVars == <<pSelected, pRetry, pEnd, pPc, pOpen, pSubmitAt>>

overlapVars ==
    <<oPc, oInit, oSend, oPage, oOpen, oRetryCount, oStartBy, oAttempts, oReport>>

lifeVars == <<lBrowser, lInitialized, lOpen, lLaunching, lLaunched, lClosing, lGuard>>

\* The variables of the units modelled on their own after setupSessions.
unitVars == <<classifyVars, waitVars, stepsVars, phaseVars, overlapVars, lifeVars>>

coreVars == <<managerVars, retryVars, agentVars, findVars, setupVars>>

\* What the steps of one unit leave alone: everything outside the unit.
ClassifyFrame == UNCHANGED <<coreVars, waitVars, stepsVars, phaseVars, overlapVars, lifeVars>>

WaitFrame == UNCHANGED <<coreVars, classifyVars, stepsVars, phaseVars, overlapVars, lifeVars>>

StepsFrame == UNCHANGED <<coreVars, classifyVars, waitVars, phaseVars, overlapVars, lifeVars>>

PhaseFrame == UNCHANGED <<coreVars, classifyVars, waitVars, stepsVars, overlapVars, lifeVars>>

OverlapFrame == UNCHANGED <<coreVars, classifyVars, waitVars, stepsVars, phaseVars, lifeVars>>

LifeFrame == UNCHANGED <<coreVars, classifyVars, waitVars, stepsVars, phaseVars, overlapVars>>

vars ==
    <<browser, isInitialized, callPc, request, selectedChatbots, initResults,
      promptResults, results, thrown, response, closed, page, retryCount,
      closeWarnings, now, startTime, promptsDoneAt,
      rOpts, rRetry, rPc, rDelays, rTimers, rErrors, rCalls, rThrown,
      aId, aPage, aContext, aOpen, aOutcome, aCaught, aAttempts, aPrevCaught,
      aPrevType, aCloseCalls, aCloseWarnings, aCloseThrew,
      fPage, fSelectors, fTimeout, fAppears, fPc, fProbes, fElapsed, fResult,
      sBrowser, sSession, sPc, sStep,
      cText, cPc, cError,
      wId, wPc, wGenerating, wAttempts, wSleeps, wFirstCheck, wThrown,
      tPage, tReady, tPc, tInit, tSend, tStep, tLog, tStatus,
      pSelected, pRetry, pEnd, pPc, pOpen, pSubmitAt,
      oPc, oInit, oSend, oPage, oOpen, oRetryCount, oStartBy, oAttempts, oReport,
      lBrowser, lInitialized, lOpen, lLaunching, lLaunched, lClosing, lGuard>>

-----------------------------------------------------------------------------
(* Inputs *)

\* Ids a request may name: three chatbots of the manager and one it does not have.
RequestIds == {"chatgpt", "claude", "gemini", "bogus"}

RECURSIVE SeqsUpTo(_, _)
SeqsUpTo(S, n) ==
    IF n = 0 THEN {<<>>}
    ELSE LET shorter == SeqsUpTo(S, n - 1)
         IN  shorter \cup {Append(q, x) : q \in shorter, x \in S}

SeqsOfLen(S, n) == {q \in SeqsUpTo(S, n) : Len(q) = n}

Prompts == {"", "2+2?"}

Requests ==
    [prompt : Prompts, chatbots : SeqsUpTo(RequestIds, MaxReq), options : {NoOptions}]

NoRequest == [prompt |-> "", chatbots |-> <<>>, options |-> NoOptions]

\* The driver's behaviour over the attempts of one withRetry: every sequence of
\* behaviours that the loop meets from its first invocation to its last.
InitScripts ==
    {b \in SeqsUpTo(InitBehaviours, InitRetryOptions.maxRetries + 1) :
        LET run == withRetry(InitRetryOptions, [i \in 1..Len(b) |-> initialize(b[i])])
        IN  run.state.status # "running" /\ run.calls = Len(b)}

SubmitScriptsOver(behaviours, id) ==
    {b \in SeqsUpTo(behaviours, SendPromptRetryOptions.maxRetries + 1) :
        LET run == sendPromptRun(id, TRUE, b)
        IN  run.state.status # "running" /\ run.calls = Len(b)}

SubmitScripts == UNION {SubmitScriptsOver(SubmitBehaviours, id) : id \in ChatbotIds}

AllSubmitScripts == UNION {SubmitScriptsOver(AllSubmitBehaviours, id) : id \in ChatbotIds}

-----------------------------------------------------------------------------
(* Actions of the manager *)

ManagerIdleInit ==
    /\ browser = FALSE
    /\ isInitialized = FALSE
    /\ callPc = "idle"
    /\ request = NoRequest
    /\ selectedChatbots = <<>>
    /\ initResults = [id \in ChatbotIds |-> Unsettled]
    /\ promptResults = [id \in ChatbotIds |-> NoPromptResult]
    /\ results = <<>>
    /\ thrown = "none"
    /\ response = NoResponse
    /\ closed = {}
    /\ page = [id \in ChatbotIds |-> FALSE]
    /\ retryCount = [id \in ChatbotIds |-> 0]
    /\ closeWarnings = {}
    /\ now = 0
    /\ startTime = 0
    /\ promptsDoneAt = 0

RetryIdleInit ==
    /\ rOpts = DefaultRetryOptions
    /\ rRetry = IdleRetry
    /\ rPc = "done"
    /\ rDelays = <<>>
    /\ rTimers = 0
    /\ rErrors = <<>>
    /\ rCalls = 0
    /\ rThrown = NoError

AgentIdleInit ==
    /\ aId = "chatgpt"
    /\ aPage = FALSE
    /\ aContext = FALSE
    /\ aOpen = {}
    /\ aOutcome = NoOutcome
    /\ aCaught = NoError
    /\ aAttempts = 0
    /\ aPrevCaught = NoError
    /\ aPrevType = "none"
    /\ aCloseCalls = 0
    /\ aCloseWarnings = 0
    /\ aCloseThrew = FALSE

FindIdleInit ==
    /\ fPage = FALSE
    /\ fSelectors = <<>>
    /\ fTimeout = 0
    /\ fAppears = <<>>
    /\ fPc = "threw"
    /\ fProbes = <<>>
    /\ fElapsed = 0
    /\ fResult = "none"

SetupIdleInit ==
    /\ sBrowser = FALSE
    /\ sSession = [id \in ChatbotIds |-> TRUE]
    /\ sPc = "idle"
    /\ sStep = [id \in ChatbotIds |-> "unstarted"]

ClassifyIdleInit ==
    /\ cText = <<>>
    /\ cPc = "mapped"
    /\ cError = NoChatBotError

WaitIdleInit ==
    /\ wId = "claude"
    /\ wPc = "returned"
    /\ wGenerating = FALSE
    /\ wAttempts = 0
    /\ wSleeps = 0
    /\ wFirstCheck = "none"
    /\ wThrown = NoError

StepsIdleInit ==
    /\ tPage = FALSE
    /\ tReady = FALSE
    /\ tPc = "done"
    /\ tInit = IdleRetry
    /\ tSend = IdleRetry
    /\ tStep = 0
    /\ tLog = <<>>
    /\ tStatus = "pending"

PhaseIdleInit ==
    /\ pSelected = {}
    /\ pRetry = [id \in ChatbotIds |-> IdleRetry]
    /\ pEnd = [id \in ChatbotIds |-> 0]
    /\ pPc = "ended"
    /\ pOpen = [id \in ChatbotIds |-> 0]
    /\ pSubmitAt = [id \in ChatbotIds |-> Never]

Calls == {1, 2}

NoReport == [retryCount |-> 0, startBy |-> 0]

OverlapIdleInit ==
    /\ oPc = [c \in Calls |-> "done"]
    /\ oInit = [c \in Calls |-> IdleRetry]
    /\ oSend = [c \in Calls |-> IdleRetry]
    /\ oPage = 0
    /\ oOpen = {}
    /\ oRetryCount = 0
    /\ oStartBy = 0
    /\ oAttempts = [c \in Calls |-> 0]
    /\ oReport = [c \in Calls |-> NoReport]

NoGuard == [held |-> FALSE, thrown |-> "unchecked"]

LifeIdleInit ==
    /\ lBrowser = 0
    /\ lInitialized = FALSE
    /\ lOpen = {}
    /\ lLaunching = 0
    /\ lLaunched = 0
    /\ lClosing = 0
    /\ lGuard = NoGuard

UnitIdleInit == ClassifyIdleInit /\ WaitIdleInit /\ StepsIdleInit /\ PhaseIdleInit /\ OverlapIdleInit /\ LifeIdleInit

CoreIdleInit ==
    ManagerIdleInit /\ RetryIdleInit /\ AgentIdleInit /\ FindIdleInit /\ SetupIdleInit

\* The state outside one unit while that unit is explored.
ClassifyAlone == CoreIdleInit /\ WaitIdleInit /\ StepsIdleInit /\ PhaseIdleInit /\ OverlapIdleInit /\ LifeIdleInit

WaitAlone == CoreIdleInit /\ ClassifyIdleInit /\ StepsIdleInit /\ PhaseIdleInit /\ OverlapIdleInit /\ LifeIdleInit

StepsAlone == CoreIdleInit /\ ClassifyIdleInit /\ WaitIdleInit /\ PhaseIdleInit /\ OverlapIdleInit /\ LifeIdleInit

PhaseAlone == CoreIdleInit /\ ClassifyIdleInit /\ WaitIdleInit /\ StepsIdleInit /\ OverlapIdleInit /\ LifeIdleInit

OverlapAlone == CoreIdleInit /\ ClassifyIdleInit /\ WaitIdleInit /\ StepsIdleInit /\ PhaseIdleInit /\ LifeIdleInit

LifeAlone == CoreIdleInit /\ ClassifyIdleInit /\ WaitIdleInit /\ StepsIdleInit /\ PhaseIdleInit /\ OverlapIdleInit

Init ==
    /\ ManagerIdleInit /\ RetryIdleInit /\ AgentIdleInit /\ FindIdleInit /\ SetupIdleInit
    /\ UnitIdleInit

\* AIManager.initialize(): a failed launch rethrows and leaves the fields as they
\* were; a launch that succeeds takes one tick of the clock.
ManagerInitialize ==
    /\ callPc = "idle"
    /\ ~isInitialized
    /\ \E launched \in BOOLEAN :
          /\ browser' = (browser \/ launched)
          /\ isInitialized' = launched
          /\ now' = now + (IF launched THEN 1 ELSE 0)
    /\ UNCHANGED <<callPc, request, selectedChatbots, initResults, promptResults,
                   results, thrown, response, closed, page, retryCount,
                   closeWarnings, startTime, promptsDoneAt>>
    /\ UNCHANGED <<retryVars, agentVars, findVars, setupVars, unitVars>>

\* sendPromptToAll up to the start of the initPromises.
SendPromptToAll(req) ==
    /\ callPc = "idle"
    /\ request' = req
    /\ startTime' = (IF browser THEN now ELSE startTime)
    /\ IF ~browser
       THEN /\ thrown' = "Browser not initialized"
            /\ callPc' = "threw"
            /\ UNCHANGED <<selectedChatbots, initResults>>
       ELSE LET selected == selectChatbots(req.chatbots)
            IN  /\ selectedChatbots' = selected
                /\ IF Len(selected) = 0
                   THEN /\ thrown' = "No valid chatbots selected"
                        /\ callPc' = "threw"
                        /\ UNCHANGED initResults
                   ELSE /\ callPc' = "initializing"
                        /\ initResults' =
                              [id \in ChatbotIds |->
                                  IF InSeq(id, selected)
                                  THEN [status |-> "pending", reason |-> NoError]
                                  ELSE Unsettled]
                        /\ UNCHANGED thrown
    /\ UNCHANGED <<browser, isInitialized, promptResults, results, response, closed,
                   page, retryCount, closeWarnings, now, promptsDoneAt>>
    /\ UNCHANGED <<retryVars, agentVars, findVars, setupVars, unitVars>>

\* One initPromise settles: withRetry(() => chatbot.initialize(browser)) ran to
\* its end. this.page is what the last initialize() call left.
InitSettles(id, behaviours) ==
    /\ callPc = "initializing"
    /\ initResults[id].status = "pending"
    /\ LET script == [i \in 1..Len(behaviours) |-> initialize(behaviours[i])]
           run == withRetry(InitRetryOptions, script)
           pageOf[n \in 0..run.calls] ==
               IF n = 0 THEN page[id]
               ELSE pageAfterInitialize(pageOf[n - 1], behaviours[n])
       IN  /\ initResults' =
                 [initResults EXCEPT ![id] =
                     IF run.state.status = "fulfilled"
                     THEN [status |-> "fulfilled", reason |-> NoError]
                     ELSE [status |-> "rejected", reason |-> run.state.lastError]]
           /\ page' = [page EXCEPT ![id] = pageOf[run.calls]]
    /\ UNCHANGED <<browser, isInitialized, callPc, request, selectedChatbots,
                   promptResults, results, thrown, response, closed, retryCount,
                   closeWarnings, now, startTime, promptsDoneAt>>
    /\ UNCHANGED <<retryVars, agentVars, findVars, setupVars, unitVars>>

\* await Promise.allSettled(initPromises) returns, one tick after the call began:
\* throw when no chatbot initialized, otherwise start sendPrompt on each
\* initialized chatbot.
InitPhaseDone ==
    /\ callPc = "initializing"
    /\ \A i \in 1..Len(selectedChatbots) :
          initResults[selectedChatbots[i]].status \in {"fulfilled", "rejected"}
    /\ IF allFailed(selectedChatbots, initResults)
       THEN /\ thrown' = "All chatbots failed to initialize"
            /\ callPc' = "closing"
            /\ UNCHANGED promptResults
       ELSE /\ callPc' = "prompting"
            /\ promptResults' =
                  [id \in ChatbotIds |->
                      IF InSeq(id, successfulOf(selectedChatbots, initResults))
                      THEN [NoPromptResult EXCEPT !.status = "pending"]
                      ELSE promptResults[id]]
            /\ UNCHANGED thrown
    /\ now' = now + 1
    /\ UNCHANGED <<browser, isInitialized, request, selectedChatbots, initResults,
                   results, response, closed, page, retryCount,
                   closeWarnings, startTime, promptsDoneAt>>
    /\ UNCHANGED <<retryVars, agentVars, findVars, setupVars, unitVars>>

\* One sendPrompt promise settles.
SendPromptSettles(id, behaviours) ==
    /\ callPc = "prompting"
    /\ promptResults[id].status = "pending"
    /\ promptResults' =
          [promptResults EXCEPT ![id] =
              [status |-> "fulfilled",
               value |-> sendPrompt(id, page[id], behaviours),
               caught |-> sendPromptCaught(id, page[id], behaviours),
               attempts |-> sendPromptRun(id, page[id], behaviours).calls]]
    /\ retryCount' =
          [retryCount EXCEPT ![id] = sendPromptRetryCount(id, page[id], behaviours)]
    /\ UNCHANGED <<browser, isInitialized, callPc, request, selectedChatbots,
                   initResults, results, thrown, response, closed, page,
                   closeWarnings, now, startTime, promptsDoneAt>>
    /\ UNCHANGED <<retryVars, agentVars, findVars, setupVars, unitVars>>

\* await Promise.allSettled(promptPromises) returns, one tick after the prompts
\* were sent, and results is built.
PromptPhaseDone ==
    /\ callPc = "prompting"
    /\ \A i \in 1..Len(selectedChatbots) :
          promptResults[selectedChatbots[i]].status # "pending"
    /\ results' = buildResults(selectedChatbots, initResults, promptResults)
    /\ callPc' = "closing"
    /\ now' = now + 1
    /\ promptsDoneAt' = now'
    /\ UNCHANGED <<browser, isInitialized, request, selectedChatbots, initResults,
                   promptResults, thrown, response, closed, page, retryCount,
                   closeWarnings, startTime>>
    /\ UNCHANGED <<retryVars, agentVars, findVars, setupVars, unitVars>>

\* The finally block and what follows it: close() is called on every selected
\* chatbot and all of them are awaited, which takes closeTime ticks; then the
\* pending error propagates, or the clock is read for totalDuration and the
\* PromptResponse is built and returned. The context of a chatbot is set
\* whenever its page is.
Finally(closeBehaviour, closeTime) ==
    /\ callPc = "closing"
    /\ LET targets == {selectedChatbots[i] : i \in 1..Len(selectedChatbots)}
           closes == [id \in targets |-> close(page[id], page[id], closeBehaviour[id])]
           pending == pendingAfterClose(thrown, closes)
       IN  /\ closed' = targets
           /\ closeWarnings' = {id \in targets : closes[id].warned}
           /\ now' = now + closeTime
           /\ thrown' = pending
           /\ IF pending # "none"
              THEN /\ callPc' = "threw"
                   /\ UNCHANGED response
              ELSE /\ callPc' = "returned"
                   /\ response' = [results |-> results,
                                   totalDuration |-> now' - startTime,
                                   successCount |-> countStatus(results, "success"),
                                   errorCount |-> countStatus(results, "error")]
    /\ UNCHANGED <<browser, isInitialized, request, selectedChatbots, initResults,
                   promptResults, results, page, retryCount, startTime, promptsDoneAt>>
    /\ UNCHANGED <<retryVars, agentVars, findVars, setupVars, unitVars>>

\* Every close() succeeds at once.
QuietClose == [id \in ChatbotIds |-> "ok"]

Next ==
    \/ ManagerInitialize
    \/ \E req \in Requests : SendPromptToAll(req)
    \/ \E id \in ChatbotIds, b \in InitScripts : InitSettles(id, b)
    \/ InitPhaseDone
    \/ \E id \in ChatbotIds, b \in SubmitScripts : SendPromptSettles(id, b)
    \/ PromptPhaseDone
    \/ Finally(QuietClose, 0)

Spec == Init /\ [][Next]_vars

-----------------------------------------------------------------------------
(* withRetry on its own, one step of its loop at a time *)

\* delay, backoffMultiplier (as a fraction) and maxDelay of the options explored:
\* the doubling schedule with the defaults' shape, the defaults themselves, and
\* a delay above maxDelay.
DelayChoices ==
    {[delay |-> 100, multNum |-> 2, multDen |-> 1, maxDelay |-> 1000],
     [delay |-> RETRY_DELAY, multNum |-> 3, multDen |-> 2, maxDelay |-> 10000],
     [delay |-> 2000, multNum |-> 2, multDen |-> 1, maxDelay |-> 1000]}

RetryPolicies ==
    {[maxRetries |-> n, delay |-> d.delay, multNum |-> d.multNum, multDen |-> d.multDen,
      maxDelay |-> d.maxDelay, retryCondition |-> c] :
        n \in 0..MaxPolicyRetries, d \in DelayChoices,
        c \in {"always", "never", "isRetryableError"}}

\* The errors the operation under withRetry may throw.
OperationErrors ==
    {PlainError("ConnectionRefused"), PlainError("GotoTimeout"),
     PlainError("SessionExpired"), PlainError("EmptyResponse"),
     FindElementError("chatgpt", "chatInput")}

InitRetry ==
    /\ ManagerIdleInit
    /\ AgentIdleInit
    /\ FindIdleInit
    /\ SetupIdleInit
    /\ UnitIdleInit
    /\ rOpts \in RetryPolicies
    /\ rRetry = RetryStart(rOpts)
    /\ rPc = "backoff"
    /\ rDelays = <<>>
    /\ rTimers = 0
    /\ rErrors = <<>>
    /\ rCalls = 0
    /\ rThrown = NoError

\* The head of an iteration: if (attempt > 0) { await setTimeout; currentDelay = ... }
RetryWait ==
    /\ rPc = "backoff"
    /\ LET b == RetryBackoff(rRetry, rOpts)
       IN  /\ rRetry' = b.state
           /\ rDelays' = Append(rDelays, b.wait)
           /\ rTimers' = rTimers + (IF b.timer THEN 1 ELSE 0)
    /\ rPc' = "operation"
    /\ UNCHANGED <<rOpts, rErrors, rCalls, rThrown>>
    /\ UNCHANGED <<managerVars, agentVars, findVars, setupVars, unitVars>>

\* await operation() resolves: return result.
OperationResolves ==
    /\ rPc = "operation"
    /\ rCalls' = rCalls + 1
    /\ rRetry' = RetryOnResolve(rRetry)
    /\ rPc' = "done"
    /\ UNCHANGED <<rOpts, rDelays, rTimers, rErrors, rThrown>>
    /\ UNCHANGED <<managerVars, agentVars, findVars, setupVars, unitVars>>

\* await operation() throws: the catch block, and throw lastError after a break.
OperationRejects(error) ==
    /\ rPc = "operation"
    /\ rCalls' = rCalls + 1
    /\ rErrors' = Append(rErrors, error)
    /\ LET r == RetryOnReject(rRetry, rOpts, error)
       IN  /\ rRetry' = r
           /\ IF r.status = "rejected"
              THEN rPc' = "done" /\ rThrown' = r.lastError
              ELSE rPc' = "backoff" /\ UNCHANGED rThrown
    /\ UNCHANGED <<rOpts, rDelays, rTimers>>
    /\ UNCHANGED <<managerVars, agentVars, findVars, setupVars, unitVars>>

NextRetry ==
    \/ RetryWait
    \/ OperationResolves
    \/ \E error \in OperationErrors : OperationRejects(error)

SpecRetry == InitRetry /\ [][NextRetry]_vars

-----------------------------------------------------------------------------
(* Properties of sendPromptToAll, checked under Spec *)

Returned == callPc = "returned"

Ended == callPc \in {"returned", "threw"}

Selected == {selectedChatbots[i] : i \in 1..Len(selectedChatbots)}

RequestedIds == {request.chatbots[i] : i \in 1..Len(request.chatbots)}

InitFailed == {id \in Selected : initResults[id].status = "rejected"}

InitSucceeded == {id \in Selected : initResults[id].status = "fulfilled"}

\* The request names only chatbots the manager has, each once.
KnownUniqueIds ==
    /\ RequestedIds \subseteq ChatbotIds
    /\ Cardinality(RequestedIds) = Len(request.chatbots)

\* The outcome the manager pushes for a failed initialization.
IsInitFailureOutcome(o) ==
    o.status = "error" /\ o.error.message = "Failed to initialize"

PositionIn(seq, x) == CHOOSE i \in 1..Len(seq) : seq[i] = x /\ \A k \in 1..(i - 1) : seq[k] # x

\* A request the contract calls malformed.
Malformed(req) ==
    \/ req.prompt = ""
    \/ Len(req.chatbots) = 0
    \/ \E i \in 1..Len(req.chatbots) : req.chatbots[i] \notin ChatbotIds

\* C1: in every result returned for a non-empty prompt the ids of the outcomes
\* are exactly the ids of the request, one outcome for each requested id,
\* unknown ids included.
C1_OutcomeIdsEqualRequestedIds ==
    (Returned /\ request.prompt # "") =>
        LET rs == response.results
        IN  /\ {rs[i].id : i \in 1..Len(rs)} = RequestedIds
            /\ \A id \in RequestedIds :
                  Cardinality({i \in 1..Len(rs) : rs[i].id = id}) = 1

\* C2: in every result returned for a request that is not malformed the
\* outcomes are in the order of the ids of the request: an outcome that comes
\* earlier belongs to an id requested earlier.
C2_OutcomesInRequestOrder ==
    (Returned /\ ~Malformed(request)) =>
        LET rs == response.results
        IN  \A i, j \in 1..Len(rs) :
               i < j =>
                  /\ rs[i].id \in RequestedIds
                  /\ rs[j].id \in RequestedIds
                  /\ PositionIn(request.chatbots, rs[i].id)
                        < PositionIn(request.chatbots, rs[j].id)

\* C3: with N selected chatbots (N is the length of the id list when it names
\* known chatbots once each) of which K < N failed initialization, the returned
\* result holds N outcomes, exactly K of them the outcomes recorded for the
\* initialization failures, one for each failed chatbot; and in no state has
\* sendPrompt been started on a chatbot whose initialization failed.
C3_InitFailuresRecordedAndExcluded ==
    /\ \A id \in InitFailed :
          promptResults[id] = NoPromptResult /\ retryCount[id] = 0
    /\ Returned =>
          LET rs == response.results
              recorded == {i \in 1..Len(rs) : IsInitFailureOutcome(rs[i])}
          IN  /\ Cardinality(InitFailed) < Len(selectedChatbots)
              /\ Len(rs) = Len(selectedChatbots)
              /\ KnownUniqueIds => Len(rs) = Len(request.chatbots)
              /\ Cardinality(recorded) = Cardinality(InitFailed)
              /\ {rs[i].id : i \in recorded} = InitFailed
              /\ \A i \in recorded : rs[i].error.details = initResults[rs[i].id].reason

C3_Witness ==
    /\ Returned
    /\ Len(response.results) = 2
    /\ Cardinality(InitFailed) = 1
    /\ \E id \in InitSucceeded : promptResults[id].status = "fulfilled"

\* C4: when every selected chatbot failed initialization the call ends by
\* throwing 'All chatbots failed to initialize' and returns no result.
C4_AllInitFailedThrows ==
    (Ended /\ Selected # {} /\ InitFailed = Selected) =>
        /\ callPc = "threw"
        /\ thrown = "All chatbots failed to initialize"
        /\ response = NoResponse

C4_Witness ==
    /\ callPc = "threw"
    /\ Cardinality(Selected) = 2
    /\ InitFailed = Selected
    /\ closed = Selected

\* C5: when at least one selected chatbot initialized, the call does not throw:
\* it returns, and every chatbot whose initialization was rejected or whose
\* submission ended in a caught error has an outcome with status error.
C5_PerAgentFailureNeverThrows ==
    /\ (callPc = "closing" /\ InitSucceeded # {}) => thrown = "none"
    /\ (Ended /\ InitSucceeded # {}) =>
          /\ Returned
          /\ \A id \in Selected :
                (id \in InitFailed \/ promptResults[id].caught # NoError) =>
                    \E i \in 1..Len(response.results) :
                       /\ response.results[i].id = id
                       /\ response.results[i].status = "error"

C5_Witness ==
    /\ Returned
    /\ InitFailed # {}
    /\ \E id \in InitSucceeded : promptResults[id].caught # NoError

\* C6: a malformed request (empty prompt, empty id list, or an id the manager
\* does not know) never ends with a returned result.
C6_MalformedRequestFails == ~(Returned /\ Malformed(request))

\* C7: in a result returned for a request that is not malformed, the outcome
\* recorded for a chatbot that failed initialization carries the kind the
\* classifier gives the initialization error, and its recoverable flag.
C7_InitFailureKindClassified ==
    (Returned /\ ~Malformed(request)) =>
        \A i \in 1..Len(response.results) :
           LET o == response.results[i]
           IN  o.id \in InitFailed =>
                  /\ o.error.type = ChatBotErrorOf[initResults[o.id].reason].type
                  /\ o.error.recoverable
                        = ChatBotErrorOf[initResults[o.id].reason].recoverable

ErrorTypes ==
    {"NETWORK_ERROR", "SELECTOR_NOT_FOUND", "TIMEOUT_ERROR", "SESSION_INVALID",
     "UNKNOWN_ERROR"}

\* C17: in every returned result, each outcome with status error, whether
\* sendPrompt produced it or the manager synthesized it, carries one of the
\* five error types, and its recoverable flag is false exactly when the type
\* is SESSION_INVALID; and createError gives each of the five types that flag.
C17_RecoverableIffNotSessionInvalid ==
    /\ Returned =>
          \A i \in 1..Len(response.results) :
             LET o == response.results[i]
             IN  o.status = "error" =>
                    /\ o.error.type \in ErrorTypes
                    /\ o.error.recoverable <=> o.error.type # "SESSION_INVALID"
    /\ \A type \in ErrorTypes :
          createError(type, "message", NoError).recoverable <=> type # "SESSION_INVALID"

C17_Witness ==
    /\ Returned
    /\ \E i \in 1..Len(response.results) :
          /\ response.results[i].error.type = "SESSION_INVALID"
          /\ ~response.results[i].error.recoverable
    /\ \E i \in 1..Len(response.results) : IsInitFailureOutcome(response.results[i])

-----------------------------------------------------------------------------
(* Properties of withRetry, checked under SpecRetry *)

\* maxRetries 3, delay 100, backoffMultiplier 2, maxDelay 1000
IsDoublingPolicy(opts, maxRetries) ==
    /\ opts.maxRetries = maxRetries
    /\ opts.delay = 100
    /\ opts.multNum = 2
    /\ opts.multDen = 1
    /\ opts.maxDelay = 1000

\* withRetry threw after an operation that failed every time with an error the
\* retry condition accepts.
AlwaysFailedRetryable ==
    /\ rPc = "done"
    /\ rRetry.status = "rejected"
    /\ \A i \in 1..Len(rErrors) : RetryCondition(rOpts.retryCondition, rErrors[i])

Last(seq) == seq[Len(seq)]

\* C8 as stated: with the bound of the options set to 3, delay 100, multiplier 2
\* and maxDelay 1000, an operation that always fails with a retryable error is
\* invoked exactly 3 times, after waits of 0, 100 and 200, and the last error
\* is thrown.
C8_ThreeInvocations ==
    (IsDoublingPolicy(rOpts, 3) /\ AlwaysFailedRetryable) =>
        /\ rCalls = 3
        /\ rDelays = <<0, 100, 200>>
        /\ rThrown = Last(rErrors)

\* C8 amended: maxRetries counts the retries, so with maxRetries 3 the operation
\* is invoked exactly 4 times, after waits of 0, 100, 200 and 400, and the last
\* error is thrown; 3 invocations after waits of 0, 100 and 200 is what
\* maxRetries 2 gives.
C8_InvocationsAreRetriesPlusOne ==
    /\ (IsDoublingPolicy(rOpts, 3) /\ AlwaysFailedRetryable) =>
          /\ rCalls = 4
          /\ rDelays = <<0, 100, 200, 400>>
          /\ rTimers = 3
          /\ rThrown = Last(rErrors)
    /\ (IsDoublingPolicy(rOpts, 2) /\ AlwaysFailedRetryable) =>
          /\ rCalls = 3
          /\ rDelays = <<0, 100, 200>>
          /\ rTimers = 2
          /\ rThrown = Last(rErrors)

C8_Witness ==
    /\ IsDoublingPolicy(rOpts, 3)
    /\ rOpts.retryCondition = "isRetryableError"
    /\ AlwaysFailedRetryable
    /\ rCalls = 4

\* C9: an error the retry condition rejects is the last one the operation
\* throws: withRetry is done at once, the operation has been invoked no more
\* often than it has failed, no wait was started after the rejected error, and
\* that error is the one thrown.
C9_StopsWhenConditionRejects ==
    \A i \in 1..Len(rErrors) :
       ~RetryCondition(rOpts.retryCondition, rErrors[i]) =>
           /\ i = Len(rErrors)
           /\ rPc = "done"
           /\ rCalls = i
           /\ Len(rDelays) = i
           /\ rTimers = i - 1
           /\ rThrown = rErrors[i]

C9_Witness ==
    /\ rPc = "done"
    /\ Len(rErrors) = 2
    /\ rOpts.retryCondition = "isRetryableError"
    /\ ~RetryCondition(rOpts.retryCondition, rErrors[2])
    /\ rRetry.attempt + 2 <= rOpts.maxRetries

\* C10: under the options of sendPrompt, a failure that leaves attempts is
\* retried exactly when the classifier gives it a kind other than
\* SESSION_INVALID.
C10_RetriedIffKindRetryable ==
    rOpts = SendPromptRetryOptions =>
        \A i \in 1..Len(rErrors) :
           LET retried == i < Len(rErrors) \/ rPc # "done"
           IN  i <= rOpts.maxRetries =>
                  (retried <=> ChatBotErrorOf[rErrors[i]].type # "SESSION_INVALID")

-----------------------------------------------------------------------------
(* sendPromptToAll on well-formed requests, with request options, close()    *)
(* calls that fail and a cleanup that takes time                             *)

\* request.options explored: absent, and retries: 1.
RequestOptions == {NoOptions, [hasRetries |-> TRUE, retries |-> 1]}

CallRequests ==
    [prompt : {"2+2?"}, chatbots : SeqsUpTo({"chatgpt", "claude"}, MaxReq),
     options : RequestOptions]

NextCall ==
    \/ ManagerInitialize
    \/ \E req \in CallRequests : SendPromptToAll(req)
    \/ \E id \in ChatbotIds, b \in InitScripts : InitSettles(id, b)
    \/ InitPhaseDone
    \/ \E id \in ChatbotIds, b \in SubmitScripts : SendPromptSettles(id, b)
    \/ PromptPhaseDone
    \/ \E closeBehaviour \in [ChatbotIds -> CloseBehaviours], closeTime \in 0..MaxCloseTicks :
          Finally(closeBehaviour, closeTime)

SpecCall == Init /\ [][NextCall]_vars

\* C14: when the call has ended, by returning or by throwing because every
\* chatbot failed initialization, close() has been called on every selected
\* chatbot that initialized or got a page; and the close() calls, failing or
\* not, leave the outcomes and the way the call ends as they were computed:
\* the result returned holds the outcomes built before the finally block, the
\* call returns exactly when some chatbot initialized, and the only error it
\* throws is the one pending before cleanup.
C14_CloseAlwaysRunsAndChangesNothing ==
    (Ended /\ Selected # {}) =>
        /\ InitSucceeded \subseteq closed
        /\ {id \in Selected : page[id]} \subseteq closed
        /\ closeWarnings \subseteq closed
        /\ Returned <=> InitSucceeded # {}
        /\ Returned =>
              /\ response.results = buildResults(selectedChatbots, initResults, promptResults)
              /\ thrown = "none"
        /\ callPc = "threw" =>
              /\ thrown = "All chatbots failed to initialize"
              /\ response = NoResponse

C14_Witness ==
    /\ Returned
    /\ Cardinality(InitSucceeded) = 1
    /\ Cardinality(closeWarnings) = 2
    /\ \E i \in 1..Len(response.results) : response.results[i].status = "success"

\* C18: in a returned result, a chatbot whose submission failed every time with
\* a retryable error made no more attempts than the retries of the request
\* allow (the first attempt and options.retries retries), CONFIG.APP.MAX_RETRIES
\* standing in when the option is absent.
C18_AttemptsFollowRequestRetries ==
    Returned =>
        \A id \in InitSucceeded :
           (promptResults[id].caught # NoError /\ RetryableOf[promptResults[id].caught]) =>
               promptResults[id].attempts <= effectiveRetries(request.options) + 1

\* C19: the totalDuration of a returned result is the time from startTime to
\* the moment the sendPrompt promises had all settled.
C19_DurationExcludesCleanup ==
    Returned => response.totalDuration = promptsDoneAt - startTime

-----------------------------------------------------------------------------
(* One chatbot on its own: initialize, sendPrompt and close in any order *)

InitAgent ==
    /\ ManagerIdleInit
    /\ RetryIdleInit
    /\ FindIdleInit
    /\ SetupIdleInit
    /\ UnitIdleInit
    /\ aId \in ChatbotIds
    /\ aPage = FALSE
    /\ aContext = FALSE
    /\ aOpen = {}
    /\ aOutcome = NoOutcome
    /\ aCaught = NoError
    /\ aAttempts = 0
    /\ aPrevCaught = NoError
    /\ aPrevType = "none"
    /\ aCloseCalls = 0
    /\ aCloseWarnings = 0
    /\ aCloseThrew = FALSE

\* One initialize(browser) call; a context and a page it replaces stay open and
\* are not followed further.
AgentInitialize(behaviour) ==
    /\ aContext' = contextAfterInitialize(aContext, behaviour)
    /\ aPage' = pageAfterInitialize(aPage, behaviour)
    /\ aOpen' = (IF behaviour = "storageStateFails" THEN aOpen ELSE {"page", "context"})
    /\ UNCHANGED <<aId, aOutcome, aCaught, aAttempts, aPrevCaught, aPrevType,
                   aCloseCalls, aCloseWarnings, aCloseThrew>>
    /\ UNCHANGED <<managerVars, retryVars, findVars, setupVars, unitVars>>

\* One sendPrompt(prompt) call, on a chatbot without a page or with an open one.
AgentSendPrompt(behaviours) ==
    /\ aPage => "page" \in aOpen
    /\ aOutcome' = sendPrompt(aId, aPage, behaviours)
    /\ aCaught' = sendPromptCaught(aId, aPage, behaviours)
    /\ aAttempts' = sendPromptRun(aId, aPage, behaviours).calls
    /\ aPrevCaught' = aCaught
    /\ aPrevType' = aOutcome.error.type
    /\ UNCHANGED <<aId, aPage, aContext, aOpen, aCloseCalls, aCloseWarnings, aCloseThrew>>
    /\ UNCHANGED <<managerVars, retryVars, findVars, setupVars, unitVars>>

\* One close() call; the fields page and context stay set.
AgentClose(behaviour) ==
    /\ aCloseCalls < MaxCloses
    /\ LET c == close(aPage, aContext, behaviour)
       IN  /\ aOpen' = aOpen \ ((IF c.pageClosed THEN {"page"} ELSE {})
                                   \cup (IF c.contextClosed THEN {"context"} ELSE {}))
           /\ aCloseWarnings' = aCloseWarnings + (IF c.warned THEN 1 ELSE 0)
           /\ aCloseThrew' = (aCloseThrew \/ c.threw)
    /\ aCloseCalls' = aCloseCalls + 1
    /\ UNCHANGED <<aId, aPage, aContext, aOutcome, aCaught, aAttempts, aPrevCaught,
                   aPrevType>>
    /\ UNCHANGED <<managerVars, retryVars, findVars, setupVars, unitVars>>

NextAgent ==
    \/ \E behaviour \in InitBehaviours : AgentInitialize(behaviour)
    \/ \E behaviours \in AllSubmitScripts : AgentSendPrompt(behaviours)
    \/ \E behaviour \in CloseBehaviours : AgentClose(behaviour)

SpecAgent == InitAgent /\ [][NextAgent]_vars

\* C11: the retryCount of an outcome is the number of _sendPromptInternal calls
\* after the first: 0 for a chatbot that succeeds on its first attempt, 2 for one
\* that fails twice and succeeds on its third.
C11_RetryCountIsRetries ==
    aOutcome.status # "pending" => aOutcome.retryCount = aAttempts - 1

\* C12: the type sendPrompt gives the error it caught depends on the text
\* alone (the same text caught twice running gets the same type) and is
\* NETWORK_ERROR for 'connection refused', SELECTOR_NOT_FOUND for 'selector not
\* found: X', TIMEOUT_ERROR for 'timed out after 30000ms', SESSION_INVALID for
\* 'session expired, please log in', and UNKNOWN_ERROR for a text that holds
\* none of the classifier's patterns.
C12_ClassifierMapsTexts ==
    aCaught # NoError =>
        LET text == ErrorMessage(aCaught)
            type == aOutcome.error.type
        IN  /\ aPrevCaught = aCaught => aPrevType = type
            /\ text = MsgConnectionRefused => type = "NETWORK_ERROR"
            /\ text = MsgSelectorNotFoundX => type = "SELECTOR_NOT_FOUND"
            /\ text = MsgTimedOut => type = "TIMEOUT_ERROR"
            /\ text = MsgSessionExpired => type = "SESSION_INVALID"
            /\ (\A p \in {PatTimeout, PatSelector, PatNotFound, PatNetwork,
                           PatConnection, PatSession, PatLogin} : ~Includes(text, p))
                  => type = "UNKNOWN_ERROR"

\* C13: an outcome with status success carries the text extracted from the
\* page: it is neither empty nor the placeholder 'No response received', for
\* each of the four chatbots.
C13_SuccessHasExtractedText ==
    aOutcome.status = "success" =>
        /\ Len(aOutcome.response) # 0
        /\ aOutcome.response # MsgNoResponseReceived

\* C15: a close() call, on a chatbot never initialized, after another close()
\* or with a page or a context that fails to close, does not throw and leaves
\* the outcome of the last sendPrompt as it was.
C15_CloseNeverThrowsNorChangesOutcome ==
    [][aCloseCalls' # aCloseCalls =>
          /\ aCloseCalls' = aCloseCalls + 1
          /\ ~aCloseThrew'
          /\ aOutcome' = aOutcome
          /\ aCaught' = aCaught
          /\ aPage' = aPage
          /\ aContext' = aContext]_vars

C15_Witness ==
    /\ aCloseCalls = 2
    /\ aCloseWarnings = 1
    /\ aOutcome.status = "success"
    /\ "context" \in aOpen
    /\ ~aCloseThrew

-----------------------------------------------------------------------------
(* findElement on its own, one waitForSelector call at a time *)

SelectorNames == {"A", "B", "C", "D"}

\* Lists of distinct selectors.
SelectorLists ==
    {l \in SeqsUpTo(SelectorNames, MaxSelectors) :
        \A i, j \in 1..Len(l) : i # j => l[i] # l[j]}

FindTimeouts == {300, 1200}

InitFind ==
    /\ ManagerIdleInit
    /\ RetryIdleInit
    /\ AgentIdleInit
    /\ SetupIdleInit
    /\ UnitIdleInit
    /\ fPage \in BOOLEAN
    /\ fSelectors \in SelectorLists
    /\ fTimeout \in FindTimeouts
    /\ fAppears \in [1..Len(fSelectors) -> {Never, 0, fTimeout \div 2}]
    /\ fPc = "probing"
    /\ fProbes = <<>>
    /\ fElapsed = 0
    /\ fResult = "none"

\* if (!this.page) throw new Error('Page not initialized')
FindWithoutPage ==
    /\ fPc = "probing"
    /\ ~fPage
    /\ fPc' = "threw"
    /\ UNCHANGED <<fPage, fSelectors, fTimeout, fAppears, fProbes, fElapsed, fResult>>
    /\ UNCHANGED <<managerVars, retryVars, agentVars, setupVars, unitVars>>

\* The waitForSelector call of the next selector resolves: return selector.
ProbeResolves ==
    /\ fPc = "probing"
    /\ fPage
    /\ Len(fProbes) < Len(fSelectors)
    /\ LET i == Len(fProbes) + 1
           timeout == probeTimeout(fTimeout, Len(fSelectors))
           took == resolveTime(fAppears[i], fElapsed)
       IN  /\ mayResolve(fAppears[i], fElapsed, timeout)
           /\ fProbes' = Append(fProbes, [selector |-> fSelectors[i], timeout |-> timeout,
                                          found |-> TRUE, took |-> took])
           /\ fElapsed' = fElapsed + took
           /\ fResult' = fSelectors[i]
    /\ fPc' = "returned"
    /\ UNCHANGED <<fPage, fSelectors, fTimeout, fAppears>>
    /\ UNCHANGED <<managerVars, retryVars, agentVars, setupVars, unitVars>>

\* It rejects when its timeout has run out: the catch block, and the next selector.
ProbeTimesOut ==
    /\ fPc = "probing"
    /\ fPage
    /\ Len(fProbes) < Len(fSelectors)
    /\ LET i == Len(fProbes) + 1
           timeout == probeTimeout(fTimeout, Len(fSelectors))
       IN  /\ mayTimeOut(fAppears[i], fElapsed, timeout)
           /\ fProbes' = Append(fProbes, [selector |-> fSelectors[i], timeout |-> timeout,
                                          found |-> FALSE, took |-> timeout])
           /\ fElapsed' = fElapsed + timeout
    /\ UNCHANGED <<fPage, fSelectors, fTimeout, fAppears, fPc, fResult>>
    /\ UNCHANGED <<managerVars, retryVars, agentVars, setupVars, unitVars>>

\* throw new Error(`None of the selectors found: ...`)
FindThrows ==
    /\ fPc = "probing"
    /\ fPage
    /\ Len(fProbes) = Len(fSelectors)
    /\ fPc' = "threw"
    /\ UNCHANGED <<fPage, fSelectors, fTimeout, fAppears, fProbes, fElapsed, fResult>>
    /\ UNCHANGED <<managerVars, retryVars, agentVars, setupVars, unitVars>>

NextFind ==
    \/ FindWithoutPage
    \/ ProbeResolves
    \/ ProbeTimesOut
    \/ FindThrows

SpecFind == InitFind /\ [][NextFind]_vars

\* C16: the waitForSelector calls of findElement go through the list in order,
\* each with the timeout totalTimeout / count and taking no longer than that;
\* only the last of them can have found its element, and that selector is the
\* one returned, after every selector before it has used up its share; the
\* time spent never exceeds totalTimeout. With [A, B, C], totalTimeout 300 and
\* only the element of C ever appearing, C is returned after at least 200.
C16_OrderedProbesWithinBudget ==
    /\ \A i \in 1..Len(fProbes) :
          /\ fProbes[i].selector = fSelectors[i]
          /\ fProbes[i].timeout * Len(fSelectors) = fTimeout
          /\ fProbes[i].took <= fProbes[i].timeout
          /\ i < Len(fProbes) => ~fProbes[i].found /\ fProbes[i].took = fProbes[i].timeout
    /\ fElapsed <= fTimeout
    /\ fPc = "returned" =>
          /\ Len(fProbes) >= 1
          /\ fProbes[Len(fProbes)].found
          /\ fResult = fSelectors[Len(fProbes)]
          /\ fElapsed * Len(fSelectors) >= (Len(fProbes) - 1) * fTimeout
    /\ (/\ fPc = "returned"
        /\ fSelectors = <<"A", "B", "C">>
        /\ fTimeout = 300
        /\ fAppears[1] = Never
        /\ fAppears[2] = Never) =>
          /\ fResult = "C"
          /\ fElapsed >= 200
          /\ fElapsed <= 300

C16_Witness ==
    /\ fPc = "returned"
    /\ fSelectors = <<"A", "B", "C">>
    /\ fTimeout = 300
    /\ fAppears[1] = Never
    /\ fAppears[2] = Never
    /\ fResult = "C"
    /\ Len(fProbes) = 3
    /\ fElapsed = 200

-----------------------------------------------------------------------------
(* setupSessions on its own, one await of one setup promise at a time *)

InitSetup ==
    /\ ManagerIdleInit
    /\ RetryIdleInit
    /\ AgentIdleInit
    /\ FindIdleInit
    /\ UnitIdleInit
    /\ sBrowser \in BOOLEAN
    /\ sSession \in [ChatbotIds -> BOOLEAN]
    /\ sPc = "idle"
    /\ sStep = [id \in ChatbotIds |-> "unstarted"]

\* setupSessions() up to await Promise.allSettled: it throws without a browser;
\* otherwise every callback of the map runs to its first await, or to its end
\* when the session file exists.
SetupSessions ==
    /\ sPc = "idle"
    /\ IF ~sBrowser
       THEN /\ sPc' = "threw"
            /\ UNCHANGED sStep
       ELSE /\ sPc' = "running"
            /\ sStep' = [id \in ChatbotIds |->
                            IF sSession[id] THEN "fulfilled" ELSE SetupSteps[1]]
    /\ UNCHANGED <<sBrowser, sSession>>
    /\ UNCHANGED <<managerVars, retryVars, agentVars, findVars, unitVars>>

\* The await a setup promise is at resolves; storageState writes the session file.
SetupStepResolves(id) ==
    /\ sPc = "running"
    /\ InSeq(sStep[id], SetupSteps)
    /\ sStep' = [sStep EXCEPT ![id] = nextSetupStep(sStep[id])]
    /\ sSession' = [sSession EXCEPT ![id] = @ \/ sStep[id] = "storageState"]
    /\ UNCHANGED <<sBrowser, sPc>>
    /\ UNCHANGED <<managerVars, retryVars, agentVars, findVars, unitVars>>

\* It rejects: the catch block logs and rethrows, which rejects the promise.
SetupStepRejects(id) ==
    /\ sPc = "running"
    /\ InSeq(sStep[id], SetupSteps)
    /\ sStep' = [sStep EXCEPT ![id] = "rejected"]
    /\ UNCHANGED <<sBrowser, sSession, sPc>>
    /\ UNCHANGED <<managerVars, retryVars, agentVars, findVars, unitVars>>

\* await Promise.allSettled(setupPromises) returns, and setupSessions with it.
SetupSettles ==
    /\ sPc = "running"
    /\ allSettled(sStep) # "pending"
    /\ sPc' = (IF allSettled(sStep) = "fulfilled" THEN "done" ELSE "threw")
    /\ UNCHANGED <<sBrowser, sSession, sStep>>
    /\ UNCHANGED <<managerVars, retryVars, agentVars, findVars, unitVars>>

NextSetup ==
    \/ SetupSessions
    \/ \E id \in ChatbotIds : SetupStepResolves(id)
    \/ \E id \in ChatbotIds : SetupStepRejects(id)
    \/ SetupSettles

SpecSetup == InitSetup /\ [][NextSetup]_vars

\* C20: with a browser, setupSessions never ends by throwing, whichever setup
\* promises reject; it ends only when every setup promise has run to its own
\* end, fulfilled (its session file then exists) or rejected; and while it runs
\* the rejection of one promise leaves every other promise where it was, free
\* to take its next step.
C20_SetupSessionsNeverFailsForOneAgent ==
    /\ sPc = "threw" => ~sBrowser
    /\ sPc = "done" =>
          \A id \in ChatbotIds :
             /\ sStep[id] \in {"fulfilled", "rejected"}
             /\ sStep[id] = "fulfilled" => sSession[id]
    /\ sPc = "running" =>
          \A id \in ChatbotIds :
             InSeq(sStep[id], SetupSteps) => ENABLED SetupStepResolves(id)

C20_Witness ==
    /\ sPc = "done"
    /\ Cardinality({id \in ChatbotIds : sStep[id] = "rejected"}) = 2
    /\ Cardinality({id \in ChatbotIds : sStep[id] = "fulfilled"}) = 2
-----------------------------------------------------------------------------
(* The backoff schedule of withRetry, checked under SpecRetry *)

RECURSIVE Pow(_, _)
Pow(b, n) == IF n = 0 THEN 1 ELSE b * Pow(b, n - 1)

\* min(baseDelay * backoffFactor^(k-1), maxDelay)
CappedBackoff(opts, k) ==
    Min((opts.delay * Pow(opts.multNum, k - 1)) \div Pow(opts.multDen, k - 1),
        opts.maxDelay)

\* C21: attempt 0 starts with no wait, and the wait before attempt k >= 1 is
\* min(delay * backoffMultiplier^(k-1), maxDelay), so no wait exceeds maxDelay,
\* for every policy, a delay above maxDelay included.
C21_WaitIsCappedBackoff ==
    \A i \in 1..Len(rDelays) :
       /\ i = 1 => rDelays[i] = 0
       /\ i > 1 => /\ rDelays[i] = CappedBackoff(rOpts, i - 1)
                   /\ rDelays[i] <= rOpts.maxDelay

-----------------------------------------------------------------------------
(* _mapErrorToChatBotError on its own *)

\* The messages explored: one to MaxWords words.
ErrorTexts == SeqsUpTo(Words, MaxWords) \ {<<>>}

InitClassify ==
    /\ ClassifyAlone
    /\ cText \in ErrorTexts
    /\ cPc = "thrown"
    /\ cError = NoChatBotError

\* The catch block of sendPrompt: this._mapErrorToChatBotError(error)
MapError ==
    /\ cPc = "thrown"
    /\ cError' = mapErrorToChatBotError(TextError(cText))
    /\ cPc' = "mapped"
    /\ UNCHANGED cText
    /\ ClassifyFrame

NextClassify == MapError

SpecClassify == InitClassify /\ [][NextClassify]_vars

\* The checks in the order timeout, element not found, network, session, each
\* with the words that match it and the kind it gives.
CheckOrder ==
    <<[words |-> {"timeout"}, type |-> "TIMEOUT_ERROR"],
      [words |-> {"selector", "not found"}, type |-> "SELECTOR_NOT_FOUND"],
      [words |-> {"network", "connection"}, type |-> "NETWORK_ERROR"],
      [words |-> {"session", "login"}, type |-> "SESSION_INVALID"]>>

Matches(text, i) == \E k \in 1..Len(text) : text[k] \in CheckOrder[i].words

\* C22: the kind of an error is that of the earliest check, in the order
\* timeout, element not found, network, session, that its text matches, whatever
\* later checks it matches as well and wherever in the text the words stand; a
\* text that matches no check is UNKNOWN_ERROR.
C22_FirstMatchingCheckDecides ==
    cPc = "mapped" /\ cText # <<>> =>
        /\ \A i \in 1..Len(CheckOrder) :
              (Matches(cText, i) /\ \A j \in 1..(i - 1) : ~Matches(cText, j))
                  => cError.type = CheckOrder[i].type
        /\ (\A i \in 1..Len(CheckOrder) : ~Matches(cText, i))
              => cError.type = "UNKNOWN_ERROR"

\* 'session timeout' has been mapped to TIMEOUT_ERROR.
C22_Witness ==
    /\ cPc = "mapped"
    /\ cText = <<"session", "timeout">>
    /\ cError.type = "TIMEOUT_ERROR"

-----------------------------------------------------------------------------
(* waitForResponse of ClaudeBot and GeminiBot on its own, one await at a time; *)
(* _sendPromptInternal calls it only with this.page set                        *)

PollingIds == {"claude", "gemini"}

InitWait ==
    /\ WaitAlone
    /\ wId \in PollingIds
    /\ wPc = "container"
    /\ wGenerating = TRUE
    /\ wAttempts = 0
    /\ wSleeps = 0
    /\ wFirstCheck = "none"
    /\ wThrown = NoError

\* findElement(this.selectors.responseContainer, RESPONSE_WAIT) and
\* page.waitForSelector(responseSelector): the container appears, or the error
\* of findElement is thrown.
WaitContainer(appears) ==
    /\ wPc = "container"
    /\ IF appears
       THEN /\ wPc' = IF loopContinues(wGenerating, wAttempts) THEN "sleep" ELSE "extract"
            /\ UNCHANGED wThrown
       ELSE /\ wPc' = "threw"
            /\ wThrown' = FindElementError(wId, "responseContainer")
    /\ UNCHANGED <<wId, wGenerating, wAttempts, wSleeps, wFirstCheck>>
    /\ WaitFrame

\* await this.page.waitForTimeout(1000)
PollSleep ==
    /\ wPc = "sleep"
    /\ wSleeps' = wSleeps + 1
    /\ wPc' = "check"
    /\ UNCHANGED <<wId, wGenerating, wAttempts, wFirstCheck, wThrown>>
    /\ WaitFrame

\* The try / catch of the loop body, attempts++ and the loop condition.
PollCheck(outcome) ==
    /\ wPc = "check"
    /\ wGenerating' = isGeneratingAfter(wId, outcome)
    /\ wAttempts' = wAttempts + 1
    /\ wFirstCheck' = IF wAttempts > 0 THEN wFirstCheck
                      ELSE IF ~outcome.stopFound THEN "notFound"
                      ELSE IF wGenerating' THEN "present" ELSE "gone"
    /\ wPc' = IF loopContinues(wGenerating', wAttempts') THEN "sleep" ELSE "extract"
    /\ UNCHANGED <<wId, wSleeps, wThrown>>
    /\ WaitFrame

\* The extraction after the loop: the text is returned, or 'No response text
\* found' is thrown.
Extract(hasText) ==
    /\ wPc = "extract"
    /\ IF hasText
       THEN wPc' = "returned" /\ UNCHANGED wThrown
       ELSE wPc' = "threw" /\ wThrown' = PlainError("NoResponseText")
    /\ UNCHANGED <<wId, wGenerating, wAttempts, wSleeps, wFirstCheck>>
    /\ WaitFrame

NextWait ==
    \/ \E appears \in BOOLEAN : WaitContainer(appears)
    \/ PollSleep
    \/ \E outcome \in CheckOutcomes : PollCheck(outcome)
    \/ \E hasText \in BOOLEAN : Extract(hasText)

SpecWait == InitWait /\ [][NextWait]_vars

\* The completion loop is over.
LoopOver == wPc \in {"extract", "returned", "threw"} /\ wThrown.tag # "NoneOfSelectors"

\* C23: when the loop has made all its RESPONSE_WAIT / 1000 polls and the last
\* one still found the indicator, waitForResponse throws an error that is
\* classified TIMEOUT_ERROR; it neither goes on to the extraction nor returns a
\* text.
C23_ExhaustedPollIsTimeout ==
    (LoopOver /\ wAttempts = maxAttempts /\ wGenerating) =>
        /\ wPc = "threw"
        /\ mapErrorToChatBotError(wThrown).type = "TIMEOUT_ERROR"

\* C24: the loop never makes more than RESPONSE_WAIT / 1000 polls, and when
\* the first check does not find the indicator (findElement throws, or the
\* element is gone) the loop is over after that one poll, nothing has been
\* thrown by the wait, and what follows is the extraction: the only error
\* there can be is the extraction's own 'No response text found'.
C24_AbsentIndicatorEndsWait ==
    /\ wAttempts <= maxAttempts
    /\ wSleeps <= maxAttempts
    /\ wFirstCheck \in {"notFound", "gone"} =>
          /\ wAttempts = 1
          /\ wSleeps = 1
          /\ ~wGenerating
          /\ wPc \in {"extract", "returned", "threw"}
          /\ wPc = "threw" => wThrown = PlainError("NoResponseText")

\* The indicator was not found at the first check and the text was returned.
C24_Witness ==
    /\ wFirstCheck = "notFound"
    /\ wAttempts = 1
    /\ wPc = "returned"

-----------------------------------------------------------------------------
(* One chatbot through one sendPromptToAll call, one page call at a time: the  *)
(* manager initializes it under withRetry and calls sendPrompt if that         *)
(* succeeded; sendPrompt may also be called on a chatbot never initialized     *)

\* The errors a page call of _sendPromptInternal throws: one that is retried and
\* one that is not.
StepErrors == {PlainError("ConnectionRefused"), PlainError("SessionExpired")}

InitSteps ==
    /\ StepsAlone
    /\ tPage = FALSE
    /\ tReady = FALSE
    /\ tPc = "start"
    /\ tInit = IdleRetry
    /\ tSend = IdleRetry
    /\ tStep = 0
    /\ tLog = <<>>
    /\ tStatus = "pending"

\* One chatbot.initialize(browser) call inside withRetry(..., {maxRetries: 2,
\* retryCondition: isRetryableError}), and what withRetry does with its end.
DriverInitialize(behaviour) ==
    /\ tPc \in {"start", "initializing"}
    /\ tPage' = pageAfterInitialize(tPage, behaviour)
    /\ LET r0 == IF tPc = "start" THEN RetryStart(InitRetryOptions) ELSE tInit
           b == RetryBackoff(r0, InitRetryOptions).state
           r == IF initialize(behaviour) = Resolves THEN RetryOnResolve(b)
                ELSE RetryOnReject(b, InitRetryOptions, initialize(behaviour))
       IN  /\ tInit' = r
           /\ tReady' = (r.status = "fulfilled")
           /\ tPc' = CASE r.status = "fulfilled" -> "sendPrompt"
                       [] r.status = "rejected" -> "notPrompted"
                       [] OTHER -> "initializing"
    /\ UNCHANGED <<tSend, tStep, tLog, tStatus>>
    /\ StepsFrame

\* chatbot.sendPrompt(prompt): by the manager on a chatbot of successfulChatbots,
\* or on a chatbot on which initialize was never called.
BeginSendPrompt ==
    /\ tPc \in {"start", "sendPrompt"}
    /\ tSend' = RetryStart(SendPromptRetryOptions)
    /\ tPc' = "guard"
    /\ UNCHANGED <<tPage, tReady, tInit, tStep, tLog, tStatus>>
    /\ StepsFrame

\* What sendPrompt does when a _sendPromptInternal call throws: the catch block
\* of withRetry, then either the next call or the error outcome.
AttemptThrows(r0, error) ==
    LET r == RetryOnReject(r0, SendPromptRetryOptions, error)
    IN  /\ tSend' = r
        /\ IF r.status = "rejected"
           THEN tPc' = "done" /\ tStatus' = "error"
           ELSE tPc' = "guard" /\ UNCHANGED tStatus

\* The head of one _sendPromptInternal call: the backoff of withRetry and the
\* guard on this.page.
Guard ==
    /\ tPc = "guard"
    /\ LET b == RetryBackoff(tSend, SendPromptRetryOptions).state
       IN  IF pageGuard(tPage)
           THEN /\ tSend' = b
                /\ tPc' = "steps"
                /\ tStep' = 1
                /\ UNCHANGED tStatus
           ELSE /\ AttemptThrows(b, PlainError("NotInitialized"))
                /\ UNCHANGED tStep
    /\ UNCHANGED <<tPage, tReady, tInit, tLog>>
    /\ StepsFrame

\* The next page call of _sendPromptInternal: it resolves and the call after
\* it follows (after the extraction: the text is returned), or it throws.
PageStep(result) ==
    /\ tPc = "steps"
    /\ tLog' = Append(tLog, [attempt |-> tSend.attempt, call |-> SendSteps[tStep]])
    /\ IF result = Resolves
       THEN IF tStep < Len(SendSteps)
            THEN /\ tStep' = tStep + 1
                 /\ UNCHANGED <<tPc, tSend, tStatus>>
            ELSE /\ tSend' = RetryOnResolve(tSend)
                 /\ tPc' = "done"
                 /\ tStatus' = "success"
                 /\ UNCHANGED tStep
       ELSE /\ AttemptThrows(tSend, result)
            /\ UNCHANGED tStep
    /\ UNCHANGED <<tPage, tReady, tInit>>
    /\ StepsFrame

NextSteps ==
    \/ \E behaviour \in InitBehaviours : DriverInitialize(behaviour)
    \/ BeginSendPrompt
    \/ Guard
    \/ \E result \in {Resolves} \cup StepErrors : PageStep(result)

SpecSteps == InitSteps /\ [][NextSteps]_vars

\* The number of the page call tLog[i] within its attempt.
PlaceInAttempt(i) ==
    Cardinality({j \in 1..i : tLog[j].attempt = tLog[i].attempt})

\* C25: sendPrompt makes a page call only on a chatbot whose initialize has
\* completed successfully; called on a chatbot without a page it ends with an
\* error outcome and no page call; and the page calls of every attempt come in
\* the order of the code, so that a text is extracted only after the submit
\* click and the completion wait of the same attempt.
C25_StepsStrictlyOrdered ==
    /\ tLog # <<>> => tReady /\ tInit.status = "fulfilled"
    /\ (tPc = "done" /\ ~tPage) => tStatus = "error" /\ tLog = <<>>
    /\ \A i \in 1..Len(tLog) :
          /\ tLog[i].call = SendSteps[PlaceInAttempt(i)]
          /\ tLog[i].call = "extract" =>
                \E j, k \in 1..(i - 1) :
                   /\ j < k
                   /\ tLog[j] = [attempt |-> tLog[i].attempt, call |-> "click(submit)"]
                   /\ tLog[k] = [attempt |-> tLog[i].attempt, call |-> "completionWait"]

\* A second attempt has extracted a text after a first one failed; and
\* sendPrompt on a chatbot without a page has ended.
C25_Witness ==
    /\ tPc = "done"
    /\ tStatus = "success"
    /\ tSend.attempt = 1
    /\ tLog[Len(tLog)] = [attempt |-> 1, call |-> "extract"]

-----------------------------------------------------------------------------
(* The initialization phase of sendPromptToAll with its clock: the initPromises *)
(* run side by side from time 0, one initialize() call at a time                *)

InitPhase ==
    /\ PhaseAlone
    /\ pSelected \in {S \in SUBSET ChatbotIds : Cardinality(S) \in {2, 3}}
    /\ pRetry = [id \in ChatbotIds |->
                    IF id \in pSelected THEN RetryStart(InitRetryOptions) ELSE IdleRetry]
    /\ pEnd = [id \in ChatbotIds |-> 0]
    /\ pPc = "initializing"
    /\ pOpen = [id \in ChatbotIds |-> 0]
    /\ pSubmitAt = [id \in ChatbotIds |-> Never]

\* One chatbot.initialize() call of one initPromise, with the wait of withRetry
\* before it and the catch block after it; unless newContext throws, the call
\* opens a context and assigns it to this.context.
PhaseInitialize(id, behaviour) ==
    /\ pPc = "initializing"
    /\ id \in pSelected
    /\ pRetry[id].status = "running"
    /\ LET b == RetryBackoff(pRetry[id], InitRetryOptions)
           r == IF initialize(behaviour) = Resolves THEN RetryOnResolve(b.state)
                ELSE RetryOnReject(b.state, InitRetryOptions, initialize(behaviour))
       IN  /\ pRetry' = [pRetry EXCEPT ![id] = r]
           /\ pEnd' = [pEnd EXCEPT ![id] = @ + b.wait + initializeTime(behaviour)]
    /\ pOpen' = [pOpen EXCEPT ![id] =
                    IF contextAfterInitialize(FALSE, behaviour) THEN @ + 1 ELSE @]
    /\ UNCHANGED <<pSelected, pPc, pSubmitAt>>
    /\ PhaseFrame

\* await Promise.allSettled(initPromises) resumes: 'All chatbots failed to
\* initialize' is thrown, or sendPrompt is called on the successful chatbots.
PhaseInitsSettled ==
    /\ pPc = "initializing"
    /\ \A id \in pSelected : pRetry[id].status # "running"
    /\ IF \A id \in pSelected : pRetry[id].status = "rejected"
       THEN pPc' = "threw" /\ UNCHANGED pSubmitAt
       ELSE /\ pPc' = "prompting"
            /\ pSubmitAt' = [id \in ChatbotIds |->
                                IF id \in pSelected /\ pRetry[id].status = "fulfilled"
                                THEN promptsStartAt(pSelected, pEnd, id) ELSE Never]
    /\ UNCHANGED <<pSelected, pRetry, pEnd, pOpen>>
    /\ PhaseFrame

\* The finally block, after the prompts or the throw: close() on every selected
\* chatbot closes the context this.context holds, the one opened last.
PhaseFinally ==
    /\ pPc \in {"prompting", "threw"}
    /\ pOpen' = [id \in ChatbotIds |->
                    IF id \in pSelected /\ close(pOpen[id] > 0, pOpen[id] > 0, "ok").contextClosed
                    THEN pOpen[id] - 1 ELSE pOpen[id]]
    /\ pPc' = "ended"
    /\ UNCHANGED <<pSelected, pRetry, pEnd, pSubmitAt>>
    /\ PhaseFrame

NextPhase ==
    \/ \E id \in ChatbotIds, behaviour \in InitBehaviours : PhaseInitialize(id, behaviour)
    \/ PhaseInitsSettled
    \/ PhaseFinally

SpecPhase == InitPhase /\ [][NextPhase]_vars

PhaseSuccessful == {id \in pSelected : pRetry[id].status = "fulfilled"}

\* C26: a failing initialization neither cancels nor delays another chatbot:
\* when the prompts are sent every initPromise has run to its own end, and a
\* successfully initialized chatbot is sent its prompt no later than the last
\* successful initialization ended, whatever time the failing ones took with
\* their attempts and backoff waits.
C26_InitFailureDelaysNobody ==
    pPc = "prompting" =>
        /\ \A id \in pSelected : pRetry[id].status \in {"fulfilled", "rejected"}
        /\ \A id \in PhaseSuccessful :
              pSubmitAt[id] <= MaxOf({pEnd[other] : other \in PhaseSuccessful})

-----------------------------------------------------------------------------
(* Two sendPromptToAll calls on one AIManager that select the same chatbot: the *)
(* Map of the constructor gives both the same BaseChatBot object. Each call     *)
(* runs initialize under withRetry, sendPrompt if that succeeded, and close;    *)
(* the awaits of the two calls interleave in any order                          *)

InitOverlap ==
    /\ OverlapAlone
    /\ oPc = [c \in Calls |-> "initializing"]
    /\ oInit = [c \in Calls |-> RetryStart(InitRetryOptions)]
    /\ oSend = [c \in Calls |-> IdleRetry]
    /\ oPage = 0
    /\ oOpen = {}
    /\ oRetryCount = 0
    /\ oStartBy = 0
    /\ oAttempts = [c \in Calls |-> 0]
    /\ oReport = [c \in Calls |-> NoReport]

\* One chatbot.initialize() call of call c: this.context and this.page are
\* assigned anew unless newContext throws. When initialize has succeeded the
\* manager calls sendPrompt, which sets this.startTime and this.retryCount = 0.
CallInitialize(c, behaviour) ==
    /\ oPc[c] = "initializing"
    /\ LET b == RetryBackoff(oInit[c], InitRetryOptions).state
           r == IF initialize(behaviour) = Resolves THEN RetryOnResolve(b)
                ELSE RetryOnReject(b, InitRetryOptions, initialize(behaviour))
           made == pageAfterInitialize(FALSE, behaviour)
       IN  /\ oInit' = [oInit EXCEPT ![c] = r]
           /\ oPage' = IF made THEN c ELSE oPage
           /\ oOpen' = IF made THEN oOpen \cup {c} ELSE oOpen
           /\ oPc' = [oPc EXCEPT ![c] =
                         CASE r.status = "fulfilled" -> "submitting"
                           [] r.status = "rejected" -> "cleanup"
                           [] OTHER -> "initializing"]
           /\ IF r.status = "fulfilled"
              THEN /\ oStartBy' = c
                   /\ oRetryCount' = 0
                   /\ oSend' = [oSend EXCEPT ![c] = RetryStart(SendPromptRetryOptions)]
              ELSE UNCHANGED <<oStartBy, oRetryCount, oSend>>
    /\ UNCHANGED <<oAttempts, oReport>>
    /\ OverlapFrame

\* One _sendPromptInternal call of call c, on whatever this.page now is, and
\* what sendPrompt does with its end: the outcome reports this.retryCount and
\* the time since this.startTime.
CallAttempt(c, result) ==
    /\ oPc[c] = "submitting"
    /\ oRetryCount' = oRetryCount + 1
    /\ oAttempts' = [oAttempts EXCEPT ![c] = @ + 1]
    /\ LET b == RetryBackoff(oSend[c], SendPromptRetryOptions).state
           r == IF result = Resolves THEN RetryOnResolve(b)
                ELSE RetryOnReject(b, SendPromptRetryOptions, result)
       IN  /\ oSend' = [oSend EXCEPT ![c] = r]
           /\ IF r.status = "running"
              THEN UNCHANGED <<oPc, oReport>>
              ELSE /\ oPc' = [oPc EXCEPT ![c] = "cleanup"]
                   /\ oReport' = [oReport EXCEPT ![c] =
                                     [retryCount |-> oRetryCount', startBy |-> oStartBy]]
    /\ UNCHANGED <<oInit, oPage, oOpen, oStartBy>>
    /\ OverlapFrame

\* The finally block of call c: chatbot.close() closes this.page and
\* this.context, whichever call created them.
CallCleanup(c) ==
    /\ oPc[c] = "cleanup"
    /\ oOpen' = oOpen \ {oPage}
    /\ oPc' = [oPc EXCEPT ![c] = "done"]
    /\ UNCHANGED <<oInit, oSend, oPage, oRetryCount, oStartBy, oAttempts, oReport>>
    /\ OverlapFrame

NextOverlap ==
    \E c \in Calls :
       \/ \E behaviour \in InitBehaviours : CallInitialize(c, behaviour)
       \/ \E result \in {Resolves} \cup StepErrors : CallAttempt(c, result)
       \/ CallCleanup(c)

SpecOverlap == InitOverlap /\ [][NextOverlap]_vars

\* C27: neither of two overlapping calls disturbs the other: while a call is
\* submitting or waiting, this.page is the page its own initialize created and
\* that page is open; and the outcome of each call reports the number of its
\* own attempts and a response time counted from its own start.
C27_OverlappingCallsDoNotInterfere ==
    \A c \in Calls :
       /\ oPc[c] = "submitting" => oPage = c /\ c \in oOpen
       /\ oReport[c] # NoReport =>
             /\ oReport[c].retryCount = oAttempts[c]
             /\ oReport[c].startBy = c

\* C28: when sendPromptToAll has ended, no context opened for a chatbot during
\* the call is still open, the contexts of initialization attempts that failed
\* and were retried included.
C28_AllContextsClosedAtEnd ==
    pPc = "ended" => \A id \in pSelected : pOpen[id] = 0

-----------------------------------------------------------------------------
(* The counts of a returned result, checked under Spec *)

OutcomesWith(status) ==
    {i \in 1..Len(response.results) : response.results[i].status = status}

\* C29: in every result returned, successCount is the number of outcomes with
\* status success, errorCount the number with status error, the two add up to
\* the number of outcomes, and no outcome has status pending.
C29_CountsMatchOutcomes ==
    Returned =>
        /\ response.successCount = Cardinality(OutcomesWith("success"))
        /\ response.errorCount = Cardinality(OutcomesWith("error"))
        /\ response.successCount + response.errorCount = Len(response.results)
        /\ OutcomesWith("pending") = {}

\* A result with a success outcome and an error outcome has been returned.
C29_Witness ==
    /\ Returned
    /\ response.successCount = 1
    /\ response.errorCount = 1
    /\ Len(response.results) = 2

-----------------------------------------------------------------------------
(* AIManager.initialize and close, one await at a time, with the guard of *)
(* sendPromptToAll and setupSessions                                       *)

InitLife ==
    /\ LifeAlone
    /\ lBrowser = 0
    /\ lInitialized = FALSE
    /\ lOpen = {}
    /\ lLaunching = 0
    /\ lLaunched = 0
    /\ lClosing = 0
    /\ lGuard = NoGuard

\* initialize() up to await chromium.launch(); with isInitialized set it
\* returns at once and changes nothing.
LifeInitialize ==
    /\ ~lInitialized
    /\ lLaunched + lLaunching < MaxLaunches
    /\ lLaunching' = lLaunching + 1
    /\ UNCHANGED <<lBrowser, lInitialized, lOpen, lLaunched, lClosing, lGuard>>
    /\ LifeFrame

\* chromium.launch() resolves: this.browser = ...; this.isInitialized = true
LaunchResolves ==
    /\ lLaunching > 0
    /\ lLaunching' = lLaunching - 1
    /\ lLaunched' = lLaunched + 1
    /\ lBrowser' = lLaunched + 1
    /\ lOpen' = lOpen \cup {lLaunched + 1}
    /\ lInitialized' = TRUE
    /\ UNCHANGED <<lClosing, lGuard>>
    /\ LifeFrame

\* chromium.launch() rejects: the catch block logs and rethrows.
LaunchRejects ==
    /\ lLaunching > 0
    /\ lLaunching' = lLaunching - 1
    /\ UNCHANGED <<lBrowser, lInitialized, lOpen, lLaunched, lClosing, lGuard>>
    /\ LifeFrame

\* close() up to await this.browser.close(); without a browser it only clears
\* isInitialized.
LifeClose ==
    /\ lClosing = 0
    /\ IF lBrowser # 0
       THEN lClosing' = lBrowser /\ UNCHANGED lInitialized
       ELSE lInitialized' = FALSE /\ UNCHANGED lClosing
    /\ UNCHANGED <<lBrowser, lOpen, lLaunching, lLaunched, lGuard>>
    /\ LifeFrame

\* browser.close() resolves: this.browser = undefined; this.isInitialized = false
BrowserCloseResolves ==
    /\ lClosing # 0
    /\ lOpen' = lOpen \ {lClosing}
    /\ lBrowser' = 0
    /\ lInitialized' = FALSE
    /\ lClosing' = 0
    /\ UNCHANGED <<lLaunching, lLaunched, lGuard>>
    /\ LifeFrame

\* browser.close() rejects: the catch block logs and rethrows, the fields stay.
BrowserCloseRejects ==
    /\ lClosing # 0
    /\ lClosing' = 0
    /\ UNCHANGED <<lBrowser, lInitialized, lOpen, lLaunching, lLaunched, lGuard>>
    /\ LifeFrame

\* The first statement of sendPromptToAll and of setupSessions.
LifeGuard ==
    /\ lGuard' = [held |-> lBrowser # 0, thrown |-> browserGuard(lBrowser)]
    /\ lGuard' # lGuard
    /\ UNCHANGED <<lBrowser, lInitialized, lOpen, lLaunching, lLaunched, lClosing>>
    /\ LifeFrame

NextLife ==
    \/ LifeInitialize
    \/ LaunchResolves
    \/ LaunchRejects
    \/ LifeClose
    \/ BrowserCloseResolves
    \/ BrowserCloseRejects
    \/ LifeGuard

SpecLife == InitLife /\ [][NextLife]_vars

\* No initialize or close call is under way.
LifeQuiet == lLaunching = 0 /\ lClosing = 0

\* C30: whenever the initialize and close calls made so far have all ended, the
\* manager is marked initialized exactly when this.browser holds a browser that
\* is open, at most one browser it launched is open, and a sendPromptToAll or
\* setupSessions call has thrown 'Browser not initialized' exactly when no
\* browser was held.
C30_InitializedIffOneOpenBrowser ==
    /\ LifeQuiet =>
          /\ lInitialized <=> (lBrowser # 0 /\ lBrowser \in lOpen)
          /\ Cardinality(lOpen) <= 1
    /\ lGuard # NoGuard =>
          (lGuard.thrown = "Browser not initialized" <=> ~lGuard.held)

====
